---------------------------- MODULE Spec2Model ----------------------------
(***************************************************************************)
(* Chat endpoint of the promotional-products assistant                     *)
(* (src/app/api/chat/route.ts): the conversation store, the POST handler   *)
(* with its two suspension points, the precise and the semantic matcher    *)
(* and the hybrid retrieval that combines them.                            *)
(*                                                                         *)
(* A JavaScript string is a sequence of pieces.  Text that the code        *)
(* inspects (request messages, file contents, model replies) is a sequence *)
(* of one-character pieces; a string literal of the code that is only      *)
(* copied is a single piece.  String concatenation is \o.                  *)
(***************************************************************************)
EXTENDS Integers, Sequences, FiniteSets, TLC

(* ------------------------------ bounds -------------------------------- *)
\* requests accepted over a behaviour
MaxRequests == 3
\* conversations held by the store
MaxConversations == 2

(* --------------------------- JavaScript values ------------------------- *)
\* null / undefined in a place that otherwise holds a string
Null == << "<null>" >>

\* truthiness of a string-or-null value: null, undefined and "" are falsy
Truthy(s) == s # Null /\ s # << >>

\* a number is a value in hundredths, NaN or undefined
Num(v) == [t |-> "num", v |-> v]
NaN == [t |-> "nan", v |-> 0]
UndefinedNum == [t |-> "undefined", v |-> 0]

\* truthiness of a number: undefined, NaN and 0 are falsy
TruthyNum(n) == n.t = "num" /\ n.v # 0

\* a > b and a <= b on numbers: any comparison with NaN is false
NumGt(a, b) == a.t = "num" /\ b.t = "num" /\ a.v > b.v
NumLe(a, b) == a.t = "num" /\ b.t = "num" /\ a.v <= b.v

Upper == << "A","B","C","D","E","F","G","H","I","J","K","L","M",
            "N","O","P","Q","R","S","T","U","V","W","X","Y","Z" >>
Lower == << "a","b","c","d","e","f","g","h","i","j","k","l","m",
            "n","o","p","q","r","s","t","u","v","w","x","y","z" >>
Digits == << "0","1","2","3","4","5","6","7","8","9" >>

IsDigit(c) == \E i \in 1..10 : Digits[i] = c
DigitVal(c) == (CHOOSE i \in 1..10 : Digits[i] = c) - 1
IsSpace(c) == c \in {" ", "\t", "\n", "\r"}

LowerChar(c) ==
    IF \E i \in 1..26 : Upper[i] = c
    THEN Lower[CHOOSE i \in 1..26 : Upper[i] = c]
    ELSE c

\* String.prototype.toLowerCase
ToLowerCase(s) == [i \in 1..Len(s) |-> LowerChar(s[i])]

\* String.prototype.includes
Includes(s, t) ==
    \E i \in 0..(Len(s) - Len(t)) : SubSeq(s, i + 1, i + Len(t)) = t

\* String.prototype.trim
RECURSIVE TrimStart(_)
TrimStart(s) ==
    IF s # << >> /\ IsSpace(Head(s)) THEN TrimStart(Tail(s)) ELSE s

RECURSIVE TrimEnd(_)
TrimEnd(s) ==
    IF s # << >> /\ IsSpace(s[Len(s)])
    THEN TrimEnd(SubSeq(s, 1, Len(s) - 1))
    ELSE s

Trim(s) == TrimEnd(TrimStart(s))

\* String.prototype.split on a one-character separator: the pieces between
\* consecutive occurrences of sep, empty pieces included
Split(s, sep) ==
    LET cuts == {i \in 1..Len(s) : s[i] = sep}
        \* position of the k-th separator; 0 before the first piece and
        \* Len(s) + 1 after the last
        Cut(k) == IF k = 0 THEN 0
                  ELSE IF k > Cardinality(cuts) THEN Len(s) + 1
                  ELSE CHOOSE p \in cuts : Cardinality({q \in cuts : q < p}) = k - 1
    IN  [k \in 1..(Cardinality(cuts) + 1) |-> SubSeq(s, Cut(k - 1) + 1, Cut(k) - 1)]

\* the class [$,\s] of the price clean-up
IsPriceNoise(c) == c = "$" \/ c = "," \/ IsSpace(c)
\* the class [^\d] of the budget clean-up
IsNonDigit(c) == ~IsDigit(c)

\* priceText.replace(/[$,\s]/g, '')
StripPriceNoise(s) == SelectSeq(s, LAMBDA c : ~IsPriceNoise(c))
\* precio.replace(/[^\d]/g, '')
StripNonDigits(s) == SelectSeq(s, LAMBDA c : ~IsNonDigit(c))

\* the longest prefix of s made of digits
RECURSIVE DigitRun(_)
DigitRun(s) ==
    IF s # << >> /\ IsDigit(Head(s))
    THEN << Head(s) >> \o DigitRun(Tail(s))
    ELSE << >>

RECURSIVE DigitsValue(_, _)
DigitsValue(s, acc) ==
    IF s = << >> THEN acc ELSE DigitsValue(Tail(s), 10 * acc + DigitVal(Head(s)))

\* the first two fraction digits as hundredths
FractionValue(f) ==
    IF Len(f) = 0 THEN 0
    ELSE IF Len(f) = 1 THEN 10 * DigitVal(f[1])
    ELSE 10 * DigitVal(f[1]) + DigitVal(f[2])

\* parseFloat: leading white space, optional sign, digits, optional
\* fraction; the rest of the text is ignored; NaN when no digit is read.
\* The value is in hundredths (fraction digits after the second dropped).
ParseFloat(text) ==
    LET s0 == TrimStart(text)
        neg == s0 # << >> /\ Head(s0) = "-"
        s1 == IF s0 # << >> /\ Head(s0) \in {"-", "+"} THEN Tail(s0) ELSE s0
        ip == DigitRun(s1)
        r1 == SubSeq(s1, Len(ip) + 1, Len(s1))
        fp == IF r1 # << >> /\ Head(r1) = "." THEN DigitRun(Tail(r1)) ELSE << >>
        mag == 100 * DigitsValue(ip, 0) + FractionValue(fp)
    IN  IF ip = << >> /\ fp = << >> THEN NaN
        ELSE Num(IF neg THEN 0 - mag ELSE mag)

\* parseInt (radix 10): leading white space, optional sign, digits; the
\* value is the integer itself (not in hundredths)
ParseInt(text) ==
    LET s0 == TrimStart(text)
        neg == s0 # << >> /\ Head(s0) = "-"
        s1 == IF s0 # << >> /\ Head(s0) \in {"-", "+"} THEN Tail(s0) ELSE s0
        ip == DigitRun(s1)
    IN  IF ip = << >> THEN NaN
        ELSE Num(IF neg THEN 0 - DigitsValue(ip, 0) ELSE DigitsValue(ip, 0))

\* the first match of /(\d+)/ in s, Null when s has no digit
RECURSIVE FirstDigitRun(_)
FirstDigitRun(s) ==
    IF s = << >> THEN Null
    ELSE IF IsDigit(Head(s)) THEN DigitRun(s)
    ELSE FirstDigitRun(Tail(s))

\* decimal text of a natural number (template-literal interpolation)
RECURSIVE NatToText(_)
NatToText(n) ==
    IF n < 10 THEN << Digits[n + 1] >>
    ELSE NatToText(n \div 10) \o << Digits[(n % 10) + 1] >>

(* ------------------------------ datasets ------------------------------- *)
\* field names of the two tables
KeySku == << "s","k","u" >>
KeyNombre == << "n","o","m","b","r","e" >>
KeyDescripcion == << "d","e","s","c","r","i","p","c","i","o","n" >>
KeyCategorias == << "c","a","t","e","g","o","r","i","a","s" >>
KeyPrecio == << "p","r","e","c","i","o" >>
KeyImagenesUrl == << "i","m","a","g","e","n","e","s","_","u","r","l" >>
KeyProductos == << "p","r","o","d","u","c","t","o","s" >>
KeyImagen == << "i","m","a","g","e","n" >>

PromoHeader ==
    << "s","k","u",",","n","o","m","b","r","e",",","d","e","s","c","r","i","p",
       "c","i","o","n",",","c","a","t","e","g","o","r","i","a","s",",","p","r",
       "e","c","i","o",",","i","m","a","g","e","n","e","s","_","u","r","l" >>
PromoRow1 ==
    << "P","1",",","T","a","z","a"," ","9","9",",","\"","t","a","z","a",","," ",
       "r","o","j","a","\"",",","H","o","g","a","r",",","$","4","5",",","u","1" >>
PromoRow2 ==
    << "P","2",",","P","l","u","m","a",",","a","z","u","l",",","O","f","i","c",
       "i","n","a",",","\"","$","1",",","2","5","0"," ","M","X","N","\"",",",
       "u","2" >>
PromoRow3 ==
    << "P","3",",",",","s","i","n"," ","n","o","m","b","r","e",",","H","o","g",
       "a","r",",","$","1","0",",","u","3" >>
PromoRow4 ==
    << "P","4",",","T","a","z","a"," ","X","L",",","g","r","a","n","d","e",",",
       "H","o","g","a","r",",","c","o","n","s","u","l","t","a","r",",","u","4" >>
PromoRow5 ==
    << " "," " >>
PromoRow6 ==
    << "P","5",",","G","o","r","r","a" >>
PromoRow7 ==
    << "P","6",",","T","e","r","m","o",",","t","a","z","a"," ","t","e","r","m",
       "i","c","a",",",",","$","0",",","u","6" >>
PromoRow8 ==
    << "P","7",",","T","a","z","o","n",",","t","a","z","a"," ","9","9"," ","o",
       "z",",","C","o","c","i","n","a",",","$","1","3","0",".","5","0",",","u",
       "7" >>
PromoRow9 ==
    << "P","8",",","V","a","s","o",",","v","a","s","o",",","T","a","z","a",",",
       "$","2","0",",","u","8" >>
SuitupHeader ==
    << "n","o","m","b","r","e",",","d","e","s","c","r","i","p","c","i","o","n",
       ",","p","r","o","d","u","c","t","o","s",",","p","r","e","c","i","o",",",
       "i","m","a","g","e","n" >>
SuitupRow1 ==
    << "K","i","t"," ","O","f","i","c","i","n","a",",","b","a","s","i","c","o",
       ",","\"","p","l","u","m","a",","," ","l","i","b","r","e","t","a","\"",
       ",","$","9","0",",","i","1" >>
SuitupRow2 ==
    << "K","i","t"," ","V","i","a","j","e",",","t","a","z","a"," ","y"," ","t",
       "e","r","m","o",",","t","e","r","m","o",",","$","3","0","0",",","i","2" >>
SuitupRow3 ==
    << "K","i","t"," ","E","c","o",",",",","b","o","l","s","a",",","g","r","a",
       "t","i","s",",","i","3" >>

NL == << "\n" >>

\* airtable/promo.csv : a quoted field holding the delimiter, a quoted
\* price, a row without name, a price without digits, a blank line, a short
\* row, a zero price, a fractional price, a match on the category only
PromoCsv ==
    PromoHeader \o NL \o PromoRow1 \o NL \o PromoRow2 \o NL \o PromoRow3 \o NL
    \o PromoRow4 \o NL \o PromoRow5 \o NL \o PromoRow6 \o NL \o PromoRow7 \o NL
    \o PromoRow8 \o NL \o PromoRow9 \o NL

\* airtable/suitup.csv
SuitupCsv ==
    SuitupHeader \o NL \o SuitupRow1 \o NL \o SuitupRow2 \o NL \o SuitupRow3 \o NL

(* ----------------------------- row parsing ----------------------------- *)
\* the character loop of a row: toggle inQuotes on a quote, close a value on
\* a delimiter outside quotes, else extend the current value
RECURSIVE ParseChars(_, _, _, _)
ParseChars(line, values, current, inQuotes) ==
    IF line = << >> THEN Append(values, Trim(current))
    ELSE IF Head(line) = "\"" THEN ParseChars(Tail(line), values, current, ~inQuotes)
    ELSE IF Head(line) = "," /\ ~inQuotes
         THEN ParseChars(Tail(line), Append(values, Trim(current)), << >>, FALSE)
    ELSE ParseChars(Tail(line), values, Append(current, Head(line)), inQuotes)

\* a variant that splits a row on every delimiter
ParseLineEveryDelimiter(line) ==
    LET vs == Split(line, ",") IN [i \in 1..Len(vs) |-> Trim(vs[i])]

ParseLine(line) == ParseChars(line, << >>, << >>, FALSE)

\* lines[0].split(',').map(h => h.trim())
ParseHeaders(line) ==
    LET hs == Split(line, ",") IN [i \in 1..Len(hs) |-> Trim(hs[i])]

\* headers.forEach((header, index) => row[header] = values[index] || '')
RowObject(headers, values) ==
    [h \in {headers[i] : i \in 1..Len(headers)} |->
        LET idx == CHOOSE i \in 1..Len(headers) :
                      /\ headers[i] = h
                      /\ \A j \in 1..Len(headers) : headers[j] = h => j <= i
        IN  IF idx <= Len(values) /\ Truthy(values[idx]) THEN values[idx] ELSE << >>]

\* property read: undefined when the object has no such key
Prop(o, k) == IF k \in DOMAIN o THEN o[k] ELSE Null

Min(a, b) == IF a < b THEN a ELSE b

\* a table as the matchers see it: the lines of the file, the header names
\* and, for every line, the row object its parsing gives (ok is FALSE when
\* the read throws)
LoadTable(csv) ==
    LET lines == Split(csv, "\n")
        headers == ParseHeaders(lines[1])
    IN  [ok |-> TRUE, lines |-> lines, headers |-> headers,
         rows |-> [i \in 1..Len(lines) |-> RowObject(headers, ParseLine(lines[i]))]]

NoTable == [ok |-> FALSE, lines |-> << >>, headers |-> << >>, rows |-> << >>]

PromoTable == LoadTable(PromoCsv)
SuitupTable == LoadTable(SuitupCsv)

(* ---------------------------- precise matcher -------------------------- *)
PromoPreciseScan == 200
SuitupPreciseScan == 100
PromoVectorScan == 50
SuitupVectorScan == 30
DefaultLimit == 3

\* !keyword || field?.toLowerCase().includes(keyword.toLowerCase())
FieldMatches(field, keyword) ==
    field # Null /\ Includes(ToLowerCase(field), ToLowerCase(keyword))

\* parseFloat(priceText.replace(/[$,\s]/g, ''))
ParsePrice(precio) ==
    ParseFloat(StripPriceNoise(IF Truthy(precio) THEN precio ELSE << >>))

\* !maxPrice || (price > 0 && price <= maxPrice)
WithinBudget(precio, maxPrice) ==
    \/ ~TruthyNum(maxPrice)
    \/ /\ NumGt(ParsePrice(precio), Num(0))
       /\ NumLe(ParsePrice(precio), maxPrice)

ProductRecord(product) ==
    [sku |-> Prop(product, KeySku), nombre |-> Prop(product, KeyNombre),
     precio |-> Prop(product, KeyPrecio),
     descripcion |-> Prop(product, KeyDescripcion),
     extra |-> Prop(product, KeyCategorias),
     imagen |-> Prop(product, KeyImagenesUrl)]

KitRecord(kit) ==
    [sku |-> Null, nombre |-> Prop(kit, KeyNombre),
     precio |-> Prop(kit, KeyPrecio),
     descripcion |-> Prop(kit, KeyDescripcion),
     extra |-> Prop(kit, KeyProductos),
     imagen |-> Prop(kit, KeyImagen)]

\* the third searched field: categorias for products, productos for kits
ExtraKey(kind) == IF kind = "products" THEN KeyCategorias ELSE KeyProductos
MakeRecord(kind, row) == IF kind = "products" THEN ProductRecord(row) ELSE KitRecord(row)

\* a variant that searches the name and the description only
MatchesKeywordTwoFields(kind, row, keyword) ==
    \/ ~Truthy(keyword)
    \/ FieldMatches(Prop(row, KeyNombre), keyword)
    \/ FieldMatches(Prop(row, KeyDescripcion), keyword)

\* matchesKeyword: the three searched fields of a row
MatchesKeyword(kind, row, keyword) ==
    \/ ~Truthy(keyword)
    \/ FieldMatches(Prop(row, KeyNombre), keyword)
    \/ FieldMatches(Prop(row, KeyDescripcion), keyword)
    \/ FieldMatches(Prop(row, ExtraKey(kind)), keyword)

\* the scan loop from line i (0-based) up to bound: blank lines are
\* skipped, a matching named row is pushed, and the loop breaks once
\* limit records are held
RECURSIVE PreciseScan(_, _, _, _, _, _, _)
PreciseScan(kind, table, keyword, maxPrice, limit, i, acc) ==
    IF i >= Min(Len(table.lines), IF kind = "products" THEN PromoPreciseScan
                                                      ELSE SuitupPreciseScan)
    THEN acc
    ELSE IF Trim(table.lines[i + 1]) = << >>
    THEN PreciseScan(kind, table, keyword, maxPrice, limit, i + 1, acc)
    ELSE LET row == table.rows[i + 1]
             hit == /\ MatchesKeyword(kind, row, keyword)
                    /\ WithinBudget(Prop(row, KeyPrecio), maxPrice)
                    /\ Truthy(Prop(row, KeyNombre))
             acc2 == IF hit THEN Append(acc, MakeRecord(kind, row)) ELSE acc
         IN  IF Len(acc2) >= limit THEN acc2
             ELSE PreciseScan(kind, table, keyword, maxPrice, limit, i + 1, acc2)

\* searchPromoProductsPrecise / searchSuitUpKitsPrecise: [] from the catch
\* block when the read throws
SearchPrecise(kind, table, keyword, maxPrice, limit) ==
    IF ~table.ok THEN << >>
    ELSE PreciseScan(kind, table, keyword, maxPrice, limit, 1, << >>)

(* --------------------------- semantic matcher -------------------------- *)
\* a completion response of the model endpoint: the call throws, the
\* response has no choice, or its first choice carries content (Null: no
\* content)
Completion(t, content) == [t |-> t, content |-> content]
CompletionThrows == Completion("throw", Null)
CompletionNoChoice == Completion("nochoice", Null)
NoCompletion == Completion("none", Null)

\* the candidate list: the named rows among the first lines of the table
RECURSIVE VectorScan(_, _, _, _)
VectorScan(kind, table, i, acc) ==
    IF i >= Min(Len(table.lines), IF kind = "products" THEN PromoVectorScan
                                                      ELSE SuitupVectorScan)
    THEN acc
    ELSE IF Trim(table.lines[i + 1]) = << >>
    THEN VectorScan(kind, table, i + 1, acc)
    ELSE VectorScan(kind, table, i + 1,
                    IF Truthy(Prop(table.rows[i + 1], KeyNombre))
                    THEN Append(acc, table.rows[i + 1]) ELSE acc)

VectorCandidates(kind, table) == VectorScan(kind, table, 1, << >>)

\* a variant that sorts the indices it has read
ParseMatchesSorted(content) ==
    IF content = Null THEN << >>
    ELSE LET toks == Split(content, ",")
             nums == [i \in 1..Len(toks) |-> ParseInt(Trim(toks[i]))]
             kept == SelectSeq(nums, LAMBDA n : n.t = "num")
         IN  SortSeq([i \in 1..Len(kept) |-> kept[i].v], LAMBDA a, b : a < b)

\* content?.split(',').map(n => parseInt(n.trim())).filter(n => !isNaN(n)) || []
ParseMatches(content) ==
    IF content = Null THEN << >>
    ELSE LET toks == Split(content, ",")
             nums == [i \in 1..Len(toks) |-> ParseInt(Trim(toks[i]))]
             kept == SelectSeq(nums, LAMBDA n : n.t = "num")
         IN  [i \in 1..Len(kept) |-> kept[i].v]

\* the map callback, as the list of what survives filter(Boolean): nothing
\* for an index without candidate and for a candidate whose price is
\* positive and above the ceiling, else the candidate's record
VectorPick(kind, cands, index, maxPrice) ==
    IF index < 0 \/ index >= Len(cands) THEN << >>
    ELSE LET row == cands[index + 1]
             price == ParsePrice(Prop(row, KeyPrecio))
         IN  IF /\ TruthyNum(maxPrice)
                /\ NumGt(price, Num(0))
                /\ NumGt(price, maxPrice)
             THEN << >>
             ELSE << MakeRecord(kind, row) >>

\* matches.map(...).filter(Boolean), in the order of matches
RECURSIVE VectorResults(_, _, _, _)
VectorResults(kind, cands, matches, maxPrice) ==
    IF matches = << >> THEN << >>
    ELSE VectorPick(kind, cands, Head(matches), maxPrice)
         \o VectorResults(kind, cands, Tail(matches), maxPrice)

\* a variant that takes the first candidate when the reply is missing
SearchVectorDefaultFirst(kind, table, maxPrice, completion) ==
    IF ~table.ok THEN << >>
    ELSE VectorResults(kind, VectorCandidates(kind, table),
                       IF completion.t = "ok" /\ completion.content # Null
                       THEN ParseMatches(completion.content) ELSE << 0 >>,
                       maxPrice)

\* searchPromoProductsVector / searchSuitUpKitsVector once the completion
\* call has returned: every failure inside the try block yields []
SearchVector(kind, table, maxPrice, completion) ==
    IF ~table.ok \/ completion.t # "ok" THEN << >>
    ELSE VectorResults(kind, VectorCandidates(kind, table),
                       ParseMatches(completion.content), maxPrice)

(* ------------------------------ formatting ----------------------------- *)
\* ${value} in a template literal
Interp(v) == IF v = Null THEN << "undefined" >> ELSE v

RECURSIVE FormatEntries(_, _, _)
FormatEntries(kind, records, index) ==
    IF index > Len(records) THEN << >>
    ELSE LET r == records[index]
         IN  NatToText(index) \o << ". **" >> \o Interp(r.nombre) \o << "**\n" >>
             \o << "   - Precio: " >> \o Interp(r.precio) \o << "\n" >>
             \o << "   - Descripcion: " >> \o Interp(r.descripcion) \o << "\n" >>
             \o (IF Truthy(r.extra)
                 THEN << IF kind = "products" THEN "   - Categoria: "
                                              ELSE "   - Incluye: " >>
                      \o r.extra \o << "\n" >>
                 ELSE << >>)
             \o << "\n" >>
             \o FormatEntries(kind, records, index + 1)

FormatResults(kind, records) ==
    IF Len(records) = 0
    THEN << IF kind = "products"
            THEN "No encontre productos que coincidan con tu busqueda."
            ELSE "No encontre kits que coincidan con tu busqueda." >>
    ELSE << "Encontre " >> \o NatToText(Len(records))
         \o << IF kind = "products" THEN " productos que podrian interesarte:\n\n"
                                    ELSE " kits que podrian interesarte:\n\n" >>
         \o FormatEntries(kind, records, 1)
         \o << IF kind = "products"
               THEN "Te interesa alguno de estos productos?"
               ELSE "Te interesa alguno de estos kits?" >>

formatProductResults(products) == FormatResults("products", products)
formatKitResults(kits) == FormatResults("kits", kits)

\* the fixed message of searchAndFormatProducts / searchAndFormatKits when
\* both matchers return nothing
NoResultsMessage(kind) ==
    << IF kind = "products"
       THEN "No se encontraron productos que coincidan con los criterios de busqueda."
       ELSE "No se encontraron kits que coincidan con los criterios de busqueda." >>

(* ------------------------- hybrid retrieval ---------------------------- *)
\* the table read by a matcher of the given kind
TableOf(kind) == IF kind = "products" THEN "promo" ELSE "suitup"

\* a variant that finds the tables whatever the directory holds
ReadFileAlways(present, kind) ==
    IF kind = "products" THEN PromoTable ELSE SuitupTable

\* fs.readFileSync and the parsing of what it returns
ReadFile(present, kind) ==
    IF TableOf(kind) \notin present THEN NoTable
    ELSE IF kind = "products" THEN PromoTable
    ELSE SuitupTable

\* a variant that returns the precise records only when they fill the page
HybridStartFullPage(present, kind, keyword, maxPrice, limit) ==
    LET preciseResults == SearchPrecise(kind, ReadFile(present, kind), keyword,
                                        maxPrice, limit)
        returns == Len(preciseResults) >= limit
        call == [kind |-> kind, keyword |-> keyword, maxPrice |-> maxPrice,
                 limit |-> limit]
    IN  [preciseResults |-> preciseResults,
         returned |-> returns,
         text |-> IF returns THEN FormatResults(kind, preciseResults) ELSE Null,
         vectorCalls |-> IF returns THEN << >> ELSE << call >>,
         rankIssued |-> ~returns /\ ReadFile(present, kind).ok]

\* searchAndFormatProducts / searchAndFormatKits up to their suspension:
\* STEP 1 runs the precise matcher, STEP 2 returns its formatting when it
\* found something, STEP 3 invokes the semantic matcher, which asks the
\* model only if it could read its table
HybridStart(present, kind, keyword, maxPrice, limit) ==
    LET preciseResults == SearchPrecise(kind, ReadFile(present, kind), keyword,
                                        maxPrice, limit)
        returns == Len(preciseResults) > 0
        call == [kind |-> kind, keyword |-> keyword, maxPrice |-> maxPrice,
                 limit |-> limit]
    IN  [preciseResults |-> preciseResults,
         returned |-> returns,
         text |-> IF returns THEN FormatResults(kind, preciseResults) ELSE Null,
         vectorCalls |-> IF returns THEN << >> ELSE << call >>,
         rankIssued |-> ~returns /\ ReadFile(present, kind).ok]

\* a variant that leaves the empty case to the formatter
VectorTextFormatted(kind, vectorResults) == FormatResults(kind, vectorResults)

\* STEP 4: the formatting of the semantic results, or the fixed message
VectorText(kind, vectorResults) ==
    IF Len(vectorResults) > 0 THEN FormatResults(kind, vectorResults)
    ELSE NoResultsMessage(kind)

\* what the semantic matcher returns to searchAndFormat: [] when its read
\* threw before the model was asked
HybridVector(present, kind, maxPrice, rankIssued, completion) ==
    IF rankIssued
    THEN SearchVector(kind, ReadFile(present, kind), maxPrice, completion)
    ELSE << >>

\* searchAndFormatProducts / searchAndFormatKits as a function of the
\* answer the completion endpoint gives if it is asked
searchAndFormat(present, kind, keyword, maxPrice, limit, completion) ==
    LET start == HybridStart(present, kind, keyword, maxPrice, limit)
    IN  IF start.returned THEN start.text
        ELSE VectorText(kind, HybridVector(present, kind, maxPrice,
                                           start.rankIssued, completion))

(* ----------------------- conversations and agents ---------------------- *)
TriageAgent == << "Triage Agent" >>
PromoselectAgent == << "Promoselect Agent" >>
SuitUpAgent == << "SuitUp Agent" >>
Promoselect == << "promoselect" >>
SuitUp == << "suitup" >>

DisplayBusinessSelector == << "DISPLAY_BUSINESS_SELECTOR" >>
PromoselectWelcome ==
    << "Perfecto! Ahora te ayudo a encontrar productos promocionales individuales." >>
SuitUpWelcome ==
    << "Excelente! Te ayudo a encontrar kits de productos promocionales." >>
DialogueFallback == << "Lo siento, no pude procesar tu mensaje." >>

\* the tokens looked for in a lower-cased message
TokHola == << "h","o","l","a" >>
TokHello == << "h","e","l","l","o" >>
TokPromoselect == << "p","r","o","m","o","s","e","l","e","c","t" >>
TokSuitup == << "s","u","i","t","u","p" >>

\* the agents entry of a response: name and handoffs of the roster
Agents ==
    << [name |-> TriageAgent, handoffs |-> << PromoselectAgent, SuitUpAgent >>],
       [name |-> PromoselectAgent, handoffs |-> << TriageAgent >>],
       [name |-> SuitUpAgent, handoffs |-> << TriageAgent >>] >>

\* generateId(): the n-th identifier produced by the process
GeneratedId(n) == << "id-" >> \o NatToText(n)

InitEvent(id) ==
    [id |-> id, type |-> "message", agent |-> TriageAgent,
     content |-> << "Agent initialized" >>]

HandoffEvent(id, agent) ==
    [id |-> id, type |-> "handoff", agent |-> agent,
     content |-> << "Switched to " >> \o agent]

\* a variant that starts a conversation with a unit already chosen
NewConversationWithUnit(convId, eventId) ==
    [conversation_id |-> convId,
     current_agent |-> PromoselectAgent,
     context |-> [business_unit |-> Promoselect, customer_name |-> Null,
                  selected_products |-> << >>, descripcion |-> Null,
                  precio |-> Null],
     messages |-> << >>,
     events |-> << InitEvent(eventId) >>]

\* the object built for a conversation that the store does not hold
NewConversation(convId, eventId) ==
    [conversation_id |-> convId,
     current_agent |-> TriageAgent,
     context |-> [business_unit |-> Null, customer_name |-> Null,
                  selected_products |-> << >>, descripcion |-> Null,
                  precio |-> Null],
     messages |-> << >>,
     events |-> << InitEvent(eventId) >>]

(* ------------------------------- inputs -------------------------------- *)
\* request bodies: message absent (Null), a greeting, a greeting with a
\* selector, a selector, a description with a budget, a budget
Messages ==
    { Null,
      << "H","e","l","l","o" >>,
      << "h","o","l","a"," ","s","u","i","t","u","p" >>,
      << "P","r","o","m","o","s","e","l","e","c","t" >>,
      << "t","a","z","a"," ","9","9" >>,
      << "0" >> }

\* conversation ids a client may invent
ClientIds == { << "c1" >> }

\* answers of the completion endpoint to the dialogue call
DialogueCompletions ==
    { CompletionThrows, CompletionNoChoice, Completion("ok", << >>),
      Completion("ok", << "Claro, cuentame mas." >>) }

\* answers of the completion endpoint to the ranking call
VectorCompletions ==
    { CompletionThrows, CompletionNoChoice, Completion("ok", Null),
      Completion("ok", << "3",","," ","1" >>),
      Completion("ok", << "0",",","0",",","0",",","0" >>),
      Completion("ok", << "2",",","x",",","-","1",",","9","9" >>),
      Completion("ok", << "n","o" >>) }

Slots == {1, 2}

\* what a call finds in the airtable directory: both tables or none
FileStates == {{"promo", "suitup"}, {}}

(* -------------------------------- state -------------------------------- *)
VARIABLES
    heap,           \* the conversation objects, by object number
    conversations,  \* the Map: conversation id -> object number
    reqs,           \* the invocations of POST, by slot
    idCounter,      \* identifiers produced by generateId so far
    accepted,       \* requests received so far
    firstMessage    \* history: the message of the request that built each
                    \* stored conversation, by conversation id

vars == << heap, conversations, reqs, idCounter, accepted, firstMessage >>

NoResponse == [status |-> 0]

\* what a throw statement or a rejected promise carries: an Error with its
\* message text ("none": nothing was thrown)
Exception(t, message) == [t |-> t, message |-> message]
NoException == Exception("none", Null)
\* message.toLowerCase() on a body without message
UndefinedMessageError ==
    Exception("Error", << "Cannot read properties of undefined (reading 'toLowerCase')" >>)
\* the rejection of openai.chat.completions.create
CompletionError == Exception("Error", << "Connection error." >>)
NoSearch == [kind |-> "none", keyword |-> Null, maxPrice |-> UndefinedNum,
             limit |-> 0, files |-> {}]

IdleRequest ==
    [pc |-> "idle", seq |-> 0, message |-> Null, conversation_id |-> Null,
     convId |-> Null, obj |-> 0, created |-> FALSE, path |-> "none",
     dialogueCalls |-> 0, dialogueThrew |-> FALSE, modelReply |-> Null,
     exception |-> NoException,
     search |-> NoSearch, searches |-> 0, preciseResults |-> << >>,
     vectorCalls |-> << >>, rankIssued |-> FALSE, rankCalls |-> 0,
     rankReply |-> NoCompletion,
     vectorResults |-> << >>, searchResult |-> Null,
     response |-> NoResponse]

InFlight(r) == r.pc \in {"awaitDialogue", "awaitVector"}

\* a variant that never finds the conversation
GetNothing(convId) == 0

\* conversations.get(convId): 0 stands for undefined
Get(convId) == IF convId \in DOMAIN conversations THEN conversations[convId] ELSE 0

\* the stored conversation of a key
Stored(convId) == heap[conversations[convId]]

\* an object number not in use
FreshObj == CHOOSE o \in 1..(Cardinality(DOMAIN heap) + 1) : o \notin DOMAIN heap

\* objects no longer reachable from the Map or from a running invocation
\* are dropped
Collect(h, convs, rs) ==
    LET live == {convs[k] : k \in DOMAIN convs}
                \cup {rs[s].obj : s \in {t \in Slots : InFlight(rs[t])}}
    IN  [o \in (DOMAIN h) \cap live |-> h[o]]

\* NextResponse.json({...}) on success: a snapshot of the conversation
SuccessResponse(convId, conversation) ==
    [status |-> 200, conversation_id |-> convId,
     current_agent |-> conversation.current_agent,
     messages |-> conversation.messages, events |-> conversation.events,
     context |-> conversation.context, agents |-> Agents, guardrails |-> << >>]

\* a variant that hides the exception's message
ErrorResponseGeneric(error) ==
    [status |-> 500, error |-> << "Internal server error" >>,
     message |-> << "Unknown error" >>]

\* the catch block of POST
ErrorResponse(error) ==
    [status |-> 500, error |-> << "Internal server error" >>,
     message |-> IF error.t = "Error" THEN error.message
                 ELSE << "Unknown error" >>]

Init ==
    /\ heap = << >>
    /\ conversations = << >>
    /\ reqs = [s \in Slots |-> IdleRequest]
    /\ idCounter = 0
    /\ accepted = 0
    /\ firstMessage = << >>

(* ------------------------------- POST ---------------------------------- *)
\* a variant that compares without folding the case
MessageHasExact(message, token) == Includes(message, token)

\* message.toLowerCase().includes(token)
MessageHas(message, token) == Includes(ToLowerCase(message), token)

\* a variant that knows the Spanish greeting only
IsGreetingHolaOnly(message) ==
    \/ ~Truthy(message)
    \/ MessageHas(message, TokHola)

\* !message || message has 'hola' || message has 'hello'
IsGreeting(message) ==
    \/ ~Truthy(message)
    \/ MessageHas(message, TokHola)
    \/ MessageHas(message, TokHello)

\* the branch taken once the conversation object is at hand
\*   "greeting": the selector directive of a new conversation
\*   "throw":    message is undefined and toLowerCase raises
\*   "promoselect", "suitup": unit selection
\*   "freeform": the dialogue call
Branch(isNew, message) ==
    IF isNew /\ IsGreeting(message) THEN "greeting"
    ELSE IF message = Null THEN "throw"
    ELSE IF MessageHas(message, TokPromoselect) THEN "promoselect"
    ELSE IF MessageHas(message, TokSuitup) THEN "suitup"
    ELSE "freeform"

\* a variant that signs every message as the Triage Agent
PushMessageAsTriage(conversation, content, agent) ==
    [conversation EXCEPT !.messages =
        Append(@, [content |-> content, agent |-> TriageAgent])]

\* conversation.messages.push({content, agent})
PushMessage(conversation, content, agent) ==
    [conversation EXCEPT !.messages =
        Append(@, [content |-> content, agent |-> agent])]

\* a variant that starts the requirements over when a unit is selected
SelectUnitResettingSlots(conversation, unit, agent, welcome, eventId) ==
    [PushMessage(conversation, welcome, agent) EXCEPT
        !.context.business_unit = unit,
        !.context.descripcion = Null,
        !.context.precio = Null,
        !.current_agent = agent,
        !.events = Append(@, HandoffEvent(eventId, agent))]

\* a variant that sets the unit and leaves the agent in place
SelectUnitKeepingAgent(conversation, unit, agent, welcome, eventId) ==
    [PushMessage(conversation, welcome, agent) EXCEPT
        !.context.business_unit = unit,
        !.events = Append(@, HandoffEvent(eventId, agent))]

\* a variant that keeps only the latest handoff in the event log
SelectUnitForgetting(conversation, unit, agent, welcome, eventId) ==
    [PushMessage(conversation, welcome, agent) EXCEPT
        !.context.business_unit = unit,
        !.current_agent = agent,
        !.events = << HandoffEvent(eventId, agent) >>]

\* the body of a unit-selection branch
SelectUnit(conversation, unit, agent, welcome, eventId) ==
    [PushMessage(conversation, welcome, agent) EXCEPT
        !.context.business_unit = unit,
        !.current_agent = agent,
        !.events = Append(@, HandoffEvent(eventId, agent))]

\* a variant that stores the description of every long message
ExtractSlotsOverwriting(conversation, message) ==
    LET priceMatch == FirstDigitRun(message)
        withDesc == IF Len(message) > 3
                    THEN [conversation EXCEPT !.context.descripcion = message]
                    ELSE conversation
    IN  IF ~Truthy(withDesc.context.precio) /\ priceMatch # Null
        THEN [withDesc EXCEPT !.context.precio = priceMatch]
        ELSE withDesc

\* a variant that takes the first long message as the customer's name
ExtractSlotsNamingCustomer(conversation, message) ==
    LET priceMatch == FirstDigitRun(message)
        withDesc == IF ~Truthy(conversation.context.descripcion) /\ Len(message) > 3
                    THEN [conversation EXCEPT !.context.descripcion = message,
                                              !.context.customer_name = message]
                    ELSE conversation
    IN  IF ~Truthy(withDesc.context.precio) /\ priceMatch # Null
        THEN [withDesc EXCEPT !.context.precio = priceMatch]
        ELSE withDesc

\* a variant that takes the budget of every message that has digits
ExtractSlotsLastBudget(conversation, message) ==
    LET priceMatch == FirstDigitRun(message)
        withDesc == IF ~Truthy(conversation.context.descripcion) /\ Len(message) > 3
                    THEN [conversation EXCEPT !.context.descripcion = message]
                    ELSE conversation
    IN  IF priceMatch # Null
        THEN [withDesc EXCEPT !.context.precio = priceMatch]
        ELSE withDesc

\* a variant whose pattern matches one digit, not a run
ExtractSlotsOneDigit(conversation, message) ==
    LET priceMatch == FirstDigitRun(message)
        withDesc == IF ~Truthy(conversation.context.descripcion) /\ Len(message) > 3
                    THEN [conversation EXCEPT !.context.descripcion = message]
                    ELSE conversation
    IN  IF ~Truthy(withDesc.context.precio) /\ priceMatch # Null
        THEN [withDesc EXCEPT !.context.precio = << priceMatch[1] >>]
        ELSE withDesc

\* a variant that takes a message of any length as the description
ExtractSlotsAnyLength(conversation, message) ==
    LET priceMatch == FirstDigitRun(message)
        withDesc == IF ~Truthy(conversation.context.descripcion)
                    THEN [conversation EXCEPT !.context.descripcion = message]
                    ELSE conversation
    IN  IF ~Truthy(withDesc.context.precio) /\ priceMatch # Null
        THEN [withDesc EXCEPT !.context.precio = priceMatch]
        ELSE withDesc

\* the slot extraction of the free-form branch
ExtractSlots(conversation, message) ==
    LET priceMatch == FirstDigitRun(message)
        withDesc == IF ~Truthy(conversation.context.descripcion) /\ Len(message) > 3
                    THEN [conversation EXCEPT !.context.descripcion = message]
                    ELSE conversation
    IN  IF ~Truthy(withDesc.context.precio) /\ priceMatch # Null
        THEN [withDesc EXCEPT !.context.precio = priceMatch]
        ELSE withDesc

\* a variant that is content with one of the two slots
ShouldSearchEitherSlot(context) ==
    /\ Truthy(context.business_unit)
    /\ Truthy(context.descripcion) \/ Truthy(context.precio)

\* a variant that also asks for the customer's name
ShouldSearchNamed(context) ==
    /\ Truthy(context.business_unit)
    /\ Truthy(context.customer_name)
    /\ Truthy(context.descripcion)
    /\ Truthy(context.precio)

\* if (business_unit && descripcion && precio)
ShouldSearch(context) ==
    /\ Truthy(context.business_unit)
    /\ Truthy(context.descripcion)
    /\ Truthy(context.precio)

\* a variant that passes no ceiling
BudgetCeilingNone(precio) == UndefinedNum

\* parseFloat(precio.replace(/[^\d]/g, ''))
BudgetCeiling(precio) == ParseFloat(StripNonDigits(precio))

\* a variant with the two catalogues exchanged
KindOfExchanged(unit) ==
    IF unit = Promoselect THEN "kits"
    ELSE IF unit = SuitUp THEN "products"
    ELSE "none"

\* the catalogue searched for a business unit ("none": neither branch)
KindOf(unit) ==
    IF unit = Promoselect THEN "products"
    ELSE IF unit = SuitUp THEN "kits"
    ELSE "none"

\* choices[0]?.message?.content || "Lo siento, ..."
DialogueReply(completion) ==
    IF completion.t = "ok" /\ Truthy(completion.content)
    THEN completion.content
    ELSE DialogueFallback

\* a variant that keeps the entry already stored under the key
PersistIfAbsent(s, r, conversation, h) ==
    LET h2 == [h EXCEPT ![r.obj] = conversation]
        convs2 == conversations @@ (r.convId :> r.obj)
        rs2 == [reqs EXCEPT ![s] =
                   [r EXCEPT !.pc = "done",
                             !.response = SuccessResponse(r.convId, conversation)]]
    IN  /\ conversations' = convs2
        /\ reqs' = rs2
        /\ heap' = Collect(h2, convs2, rs2)
        /\ firstMessage' = IF r.created THEN (r.convId :> r.message) @@ firstMessage
                           ELSE firstMessage

\* a variant with a single stored conversation shared by every key
PersistSingleEntry(s, r, conversation, h) ==
    LET h2 == [h EXCEPT ![r.obj] = conversation]
        convs2 == [k \in DOMAIN conversations \cup {r.convId} |-> r.obj]
        rs2 == [reqs EXCEPT ![s] =
                   [r EXCEPT !.pc = "done",
                             !.response = SuccessResponse(r.convId, conversation)]]
    IN  /\ conversations' = convs2
        /\ reqs' = rs2
        /\ heap' = Collect(h2, convs2, rs2)
        /\ firstMessage' = IF r.created THEN (r.convId :> r.message) @@ firstMessage
                           ELSE firstMessage

\* conversations.set(convId, conversation) followed by the success
\* response; the invocation ends
Persist(s, r, conversation, h) ==
    LET h2 == [h EXCEPT ![r.obj] = conversation]
        convs2 == (r.convId :> r.obj) @@ conversations
        rs2 == [reqs EXCEPT ![s] =
                   [r EXCEPT !.pc = "done",
                             !.response = SuccessResponse(r.convId, conversation)]]
    IN  /\ conversations' = convs2
        /\ reqs' = rs2
        /\ heap' = Collect(h2, convs2, rs2)
        /\ firstMessage' = IF r.created THEN (r.convId :> r.message) @@ firstMessage
                           ELSE firstMessage

\* a variant that stores the conversation before answering the error
FailStoring(s, r, h, error) ==
    LET rs2 == [reqs EXCEPT ![s] = [r EXCEPT !.pc = "done",
                                             !.exception = error,
                                             !.response = ErrorResponse(error)]]
        convs2 == (r.convId :> r.obj) @@ conversations
    IN  /\ reqs' = rs2
        /\ conversations' = convs2
        /\ heap' = Collect(h, convs2, rs2)
        /\ UNCHANGED firstMessage

\* an exception reaches the catch block of POST; the invocation ends
Fail(s, r, h, error) ==
    LET rs2 == [reqs EXCEPT ![s] = [r EXCEPT !.pc = "done",
                                             !.exception = error,
                                             !.response = ErrorResponse(error)]]
    IN  /\ reqs' = rs2
        /\ heap' = Collect(h, conversations, rs2)
        /\ UNCHANGED << conversations, firstMessage >>

\* a variant that works on a copy of the stored conversation
ReceiveCopying(s, message, conversation_id) ==
    /\ ~InFlight(reqs[s])
    /\ accepted < MaxRequests
    /\ \/ Truthy(conversation_id) /\ conversation_id \in DOMAIN conversations
       \/ Cardinality(DOMAIN conversations) < MaxConversations
    /\ accepted' = accepted + 1
    /\ LET hasId == Truthy(conversation_id)
           convId == IF hasId THEN conversation_id ELSE GeneratedId(idCounter + 1)
           n1 == IF hasId THEN idCounter ELSE idCounter + 1
           found == Get(convId)
           isNew == found = 0
           n2 == IF isNew THEN n1 + 1 ELSE n1
           obj == FreshObj
           conversation == IF isNew THEN NewConversation(convId, GeneratedId(n2))
                           ELSE heap[found]
           h == (obj :> conversation) @@ heap
           branch == Branch(isNew, message)
           r == [IdleRequest EXCEPT !.seq = accepted + 1,
                                    !.message = message,
                                    !.conversation_id = conversation_id,
                                    !.convId = convId, !.obj = obj,
                                    !.created = isNew,
                                    !.path = branch]
       IN  CASE branch = "greeting" ->
                  /\ Persist(s, r, PushMessage(conversation, DisplayBusinessSelector,
                                               TriageAgent), h)
                  /\ idCounter' = n2
             [] branch = "throw" ->
                  /\ Fail(s, r, h, UndefinedMessageError)
                  /\ idCounter' = n2
             [] branch = "promoselect" ->
                  /\ Persist(s, r, SelectUnit(conversation, Promoselect,
                                              PromoselectAgent, PromoselectWelcome,
                                              GeneratedId(n2 + 1)), h)
                  /\ idCounter' = n2 + 1
             [] branch = "suitup" ->
                  /\ Persist(s, r, SelectUnit(conversation, SuitUp, SuitUpAgent,
                                              SuitUpWelcome, GeneratedId(n2 + 1)), h)
                  /\ idCounter' = n2 + 1
             [] branch = "freeform" ->
                  /\ reqs' = [reqs EXCEPT ![s] =
                                 [r EXCEPT !.pc = "awaitDialogue",
                                           !.dialogueCalls = 1]]
                  /\ heap' = h
                  /\ idCounter' = n2
                  /\ UNCHANGED << conversations, firstMessage >>

\* POST from its entry to its first suspension or to its return
Receive(s, message, conversation_id) ==
    /\ ~InFlight(reqs[s])
    /\ accepted < MaxRequests
    /\ \/ Truthy(conversation_id) /\ conversation_id \in DOMAIN conversations
       \/ Cardinality(DOMAIN conversations) < MaxConversations
    /\ accepted' = accepted + 1
    /\ LET hasId == Truthy(conversation_id)
           convId == IF hasId THEN conversation_id ELSE GeneratedId(idCounter + 1)
           n1 == IF hasId THEN idCounter ELSE idCounter + 1
           found == Get(convId)
           isNew == found = 0
           n2 == IF isNew THEN n1 + 1 ELSE n1
           obj == IF isNew THEN FreshObj ELSE found
           conversation == IF isNew THEN NewConversation(convId, GeneratedId(n2))
                           ELSE heap[found]
           h == IF isNew THEN (obj :> conversation) @@ heap ELSE heap
           branch == Branch(isNew, message)
           r == [IdleRequest EXCEPT !.seq = accepted + 1,
                                    !.message = message,
                                    !.conversation_id = conversation_id,
                                    !.convId = convId, !.obj = obj,
                                    !.created = isNew,
                                    !.path = branch]
       IN  CASE branch = "greeting" ->
                  /\ Persist(s, r, PushMessage(conversation, DisplayBusinessSelector,
                                               TriageAgent), h)
                  /\ idCounter' = n2
             [] branch = "throw" ->
                  /\ Fail(s, r, h, UndefinedMessageError)
                  /\ idCounter' = n2
             [] branch = "promoselect" ->
                  /\ Persist(s, r, SelectUnit(conversation, Promoselect,
                                              PromoselectAgent, PromoselectWelcome,
                                              GeneratedId(n2 + 1)), h)
                  /\ idCounter' = n2 + 1
             [] branch = "suitup" ->
                  /\ Persist(s, r, SelectUnit(conversation, SuitUp, SuitUpAgent,
                                              SuitUpWelcome, GeneratedId(n2 + 1)), h)
                  /\ idCounter' = n2 + 1
             [] branch = "freeform" ->
                  /\ reqs' = [reqs EXCEPT ![s] =
                                 [r EXCEPT !.pc = "awaitDialogue",
                                           !.dialogueCalls = 1]]
                  /\ heap' = h
                  /\ idCounter' = n2
                  /\ UNCHANGED << conversations, firstMessage >>

\* the record of a call of searchAndFormat at its suspension or return
Searching(r, search, start) ==
    [r EXCEPT !.search = search, !.searches = @ + 1,
              !.preciseResults = start.preciseResults,
              !.vectorCalls = start.vectorCalls,
              !.rankIssued = start.rankIssued,
              !.rankCalls = IF start.rankIssued THEN 1 ELSE 0,
              !.searchResult = start.text,
              !.pc = IF start.returned THEN r.pc ELSE "awaitVector"]

\* a variant that repeats a failed dialogue call once
DialogueReturnRetrying(s, completion) ==
    LET r == reqs[s]
        conversation == heap[r.obj]
        context == conversation.context
        kind == KindOf(context.business_unit)
        maxPrice == BudgetCeiling(context.precio)
        r1 == [r EXCEPT !.modelReply = DialogueReply(completion)]
    IN  /\ r.pc = "awaitDialogue"
        /\ IF completion.t = "throw"
           THEN IF r.dialogueCalls < 2
                THEN /\ reqs' = [reqs EXCEPT ![s] = [r EXCEPT !.dialogueCalls = 2]]
                     /\ UNCHANGED << heap, conversations, firstMessage >>
                ELSE Fail(s, [r EXCEPT !.dialogueThrew = TRUE], heap, CompletionError)
           ELSE IF ~ShouldSearch(context)
           THEN Persist(s, r1, PushMessage(ExtractSlots(conversation, r.message),
                                           DialogueReply(completion),
                                           conversation.current_agent), heap)
           ELSE IF kind = "none"
           THEN Persist(s, r1, PushMessage(conversation, DialogueReply(completion),
                                           conversation.current_agent), heap)
           ELSE \E found \in FileStates :
                  LET search == [kind |-> kind, keyword |-> context.descripcion,
                                 maxPrice |-> maxPrice, limit |-> DefaultLimit,
                                 files |-> found]
                      start == HybridStart(found, kind, context.descripcion,
                                           maxPrice, DefaultLimit)
                      r2 == Searching(r1, search, start)
                  IN  IF start.returned
                      THEN Persist(s, r2, PushMessage(conversation, start.text,
                                                      conversation.current_agent),
                                   heap)
                      ELSE /\ reqs' = [reqs EXCEPT ![s] = r2]
                           /\ UNCHANGED << heap, conversations, firstMessage >>
        /\ UNCHANGED << idCounter, accepted >>

\* the dialogue call returns: the search check, the precise matcher and,
\* unless the semantic matcher has to be awaited, the end of POST
DialogueReturn(s, completion) ==
    LET r == reqs[s]
        conversation == heap[r.obj]
        context == conversation.context
        kind == KindOf(context.business_unit)
        maxPrice == BudgetCeiling(context.precio)
        r1 == [r EXCEPT !.modelReply = DialogueReply(completion)]
    IN  /\ r.pc = "awaitDialogue"
        /\ IF completion.t = "throw"
           THEN Fail(s, [r EXCEPT !.dialogueThrew = TRUE], heap, CompletionError)
           ELSE IF ~ShouldSearch(context)
           THEN Persist(s, r1, PushMessage(ExtractSlots(conversation, r.message),
                                           DialogueReply(completion),
                                           conversation.current_agent), heap)
           ELSE IF kind = "none"
           THEN Persist(s, r1, PushMessage(conversation, DialogueReply(completion),
                                           conversation.current_agent), heap)
           ELSE \E found \in FileStates :
                  LET search == [kind |-> kind, keyword |-> context.descripcion,
                                 maxPrice |-> maxPrice, limit |-> DefaultLimit,
                                 files |-> found]
                      start == HybridStart(found, kind, context.descripcion,
                                           maxPrice, DefaultLimit)
                      r2 == Searching(r1, search, start)
                  IN  IF start.returned
                      THEN Persist(s, r2, PushMessage(conversation, start.text,
                                                      conversation.current_agent),
                                   heap)
                      ELSE /\ reqs' = [reqs EXCEPT ![s] = r2]
                           /\ UNCHANGED << heap, conversations, firstMessage >>
        /\ UNCHANGED << idCounter, accepted >>

\* the record of a call of searchAndFormat once the semantic matcher has
\* returned
Searched(r, completion) ==
    LET vectorResults == HybridVector(r.search.files, r.search.kind, r.search.maxPrice,
                                      r.rankIssued, completion)
    IN  [r EXCEPT !.rankReply = IF r.rankIssued THEN completion ELSE NoCompletion,
                  !.vectorResults = vectorResults,
                  !.searchResult = VectorText(r.search.kind, vectorResults)]

\* the semantic matcher returns: the reply is pushed and POST ends
VectorReturn(s, completion) ==
    LET r == reqs[s]
        conversation == heap[r.obj]
        r2 == Searched(r, completion)
    IN  /\ r.pc = "awaitVector"
        /\ r.rankIssued \/ completion = CompletionThrows
        /\ Persist(s, r2, PushMessage(conversation, r2.searchResult,
                                      conversation.current_agent), heap)
        /\ UNCHANGED << idCounter, accepted >>

\* the conversation ids a client can send: none, an invented one, or one
\* it was given
RequestIds == {Null} \cup ClientIds \cup DOMAIN conversations

ReceiveAny == \E m \in Messages : \E c \in RequestIds : Receive(1, m, c)
DialogueReturnAny == \E c \in DialogueCompletions : DialogueReturn(1, c)
VectorReturnAny == \E c \in VectorCompletions : VectorReturn(1, c)

\* requests handled one at a time
Next == ReceiveAny \/ DialogueReturnAny \/ VectorReturnAny

Spec == Init /\ [][Next]_vars

(* -------------------- a conversation ready for retrieval --------------- *)
\* the conversation left by a request 'Promoselect' without id followed by a
\* request 'taza 99' with the id returned, the model answering with text
ReadyConversation ==
    LET built == NewConversation(GeneratedId(1), GeneratedId(2))
        selected == SelectUnit(built, Promoselect, PromoselectAgent,
                               PromoselectWelcome, GeneratedId(3))
    IN  PushMessage(ExtractSlots(selected, << "t","a","z","a"," ","9","9" >>),
                    << "Claro, cuentame mas." >>, PromoselectAgent)

\* the state of the process after those two requests
ReadyInit ==
    /\ heap = (1 :> ReadyConversation)
    /\ conversations = (GeneratedId(1) :> 1)
    /\ reqs = [s \in Slots |-> IdleRequest]
    /\ idCounter = 3
    /\ accepted = 0
    /\ firstMessage = (GeneratedId(1) :> << "P","r","o","m","o","s","e","l","e","c","t" >>)

\* requests handled one at a time from there on: selections of either unit
\* and free-form text
ReadyMessages ==
    { << "h","o","l","a"," ","s","u","i","t","u","p" >>,
      << "P","r","o","m","o","s","e","l","e","c","t" >>,
      << "0" >> }
ReadyDialogueCompletions == { CompletionThrows, Completion("ok", << "Claro, cuentame mas." >>) }
ReadyVectorCompletions == { CompletionThrows, Completion("ok", << "3",","," ","1" >>) }

ReadyReceive == \E m \in ReadyMessages : \E c \in RequestIds : Receive(1, m, c)
ReadyDialogueReturn == \E c \in ReadyDialogueCompletions : DialogueReturn(1, c)
ReadyVectorReturn == \E c \in ReadyVectorCompletions : VectorReturn(1, c)

ReadyNext == ReadyReceive \/ ReadyDialogueReturn \/ ReadyVectorReturn

ReadySpec == ReadyInit /\ [][ReadyNext]_vars

(* ------------------------- overlapping requests ------------------------ *)
\* two invocations of POST interleaved at their suspension points; the inputs
\* are the ones that suspend (free-form text) and one selection of a unit
ConcMessages ==
    { << "P","r","o","m","o","s","e","l","e","c","t" >>,
      << "t","a","z","a"," ","9","9" >>,
      << "0" >> }
ConcDialogueCompletions == { CompletionThrows, Completion("ok", << "Claro, cuentame mas." >>) }
ConcVectorCompletions == { CompletionThrows, Completion("ok", << "3",","," ","1" >>) }

\* which record holds a request is bookkeeping of the model: the lowest free one
FreeSlot(s) == ~InFlight(reqs[s]) /\ \A t \in Slots : t < s => InFlight(reqs[t])

ConcReceive ==
    \E s \in Slots : \E m \in ConcMessages : \E c \in RequestIds :
        FreeSlot(s) /\ Receive(s, m, c)
ConcDialogueReturn ==
    \E s \in Slots : \E c \in ConcDialogueCompletions : DialogueReturn(s, c)
ConcVectorReturn ==
    \E s \in Slots : \E c \in ConcVectorCompletions : VectorReturn(s, c)

ConcNext == ConcReceive \/ ConcDialogueReturn \/ ConcVectorReturn

ConcSpec == Init /\ [][ConcNext]_vars

(* ------------------ a model that answers with any text ----------------- *)
\* requests handled one at a time, the dialogue model answering with ordinary
\* text or with the text the client takes as the selector directive
EchoMessages ==
    { << "H","e","l","l","o" >>,
      << "P","r","o","m","o","s","e","l","e","c","t" >>,
      << "t","a","z","a"," ","9","9" >> }
EchoDialogueCompletions ==
    { Completion("ok", << "Claro, cuentame mas." >>),
      Completion("ok", DisplayBusinessSelector) }
EchoVectorCompletions == { CompletionThrows, Completion("ok", << "3",","," ","1" >>) }

EchoReceive == \E m \in EchoMessages : \E c \in RequestIds : Receive(1, m, c)
EchoDialogueReturn == \E c \in EchoDialogueCompletions : DialogueReturn(1, c)
EchoVectorReturn == \E c \in EchoVectorCompletions : VectorReturn(1, c)

EchoNext == EchoReceive \/ EchoDialogueReturn \/ EchoVectorReturn

EchoSpec == Init /\ [][EchoNext]_vars

(* ------------- overlapping requests after a race on a new id ----------- *)
\* two requests '0' with the id c1, which was not stored, each built a
\* conversation of its own (592-654); the one received first has stored its
\* object and returned, the other one is suspended on the dialogue call
StaleStored ==
    PushMessage(ExtractSlots(NewConversation(<< "c1" >>, GeneratedId(1)), << "0" >>),
                << "Claro, cuentame mas." >>, TriageAgent)
StaleAnswered ==
    [IdleRequest EXCEPT !.message = << "0" >>, !.conversation_id = << "c1" >>,
                        !.convId = << "c1" >>, !.obj = 1, !.created = TRUE,
                        !.path = "freeform", !.dialogueCalls = 1,
                        !.modelReply = << "Claro, cuentame mas." >>,
                        !.pc = "done",
                        !.response = SuccessResponse(<< "c1" >>, StaleStored)]
StaleSuspended ==
    [IdleRequest EXCEPT !.message = << "0" >>, !.conversation_id = << "c1" >>,
                        !.convId = << "c1" >>, !.obj = 2, !.created = TRUE,
                        !.path = "freeform", !.dialogueCalls = 1,
                        !.pc = "awaitDialogue"]

\* the requests that led here carry the number 0; accepted counts the ones
\* received from here on
StaleInit ==
    /\ heap = (1 :> StaleStored) @@
              (2 :> NewConversation(<< "c1" >>, GeneratedId(2)))
    /\ conversations = (<< "c1" >> :> 1)
    /\ reqs = << StaleAnswered, StaleSuspended >>
    /\ idCounter = 2
    /\ accepted = 0
    /\ firstMessage = (<< "c1" >> :> << "0" >>)

StaleSpec == StaleInit /\ [][ConcNext]_vars

(* ---------------- the retrieval functions called directly ------------- *)
\* arguments of a direct call: keyword undefined, empty, matching names,
\* descriptions and categories, or matching nothing
Keywords ==
    { Null, << >>, << "t","a","z","a" >>, << "P","L","U","M","A" >>,
      << "x","y","z" >> }

\* price ceilings of a direct call, in hundredths: none, 0, 25, 99
Ceilings == { UndefinedNum, Num(0), Num(2500), Num(9900) }

Limits == { 1, 2, 3 }

\* a call of searchAndFormatProducts or searchAndFormatKits
SearchCall(s, found, kind, keyword, maxPrice, limit) ==
    LET search == [kind |-> kind, keyword |-> keyword, maxPrice |-> maxPrice,
                   limit |-> limit, files |-> found]
        start == HybridStart(found, kind, keyword, maxPrice, limit)
        r == Searching([IdleRequest EXCEPT !.seq = accepted + 1,
                                            !.path = "search", !.pc = "done"],
                       search, start)
    IN  /\ ~InFlight(reqs[s])
        /\ accepted < MaxRequests
        /\ accepted' = accepted + 1
        /\ reqs' = [reqs EXCEPT ![s] = r]
        /\ UNCHANGED << heap, conversations, idCounter, firstMessage >>

\* the semantic matcher returns to a direct call
SearchReturn(s, completion) ==
    LET r == reqs[s]
    IN  /\ r.pc = "awaitVector"
        /\ r.path = "search"
        /\ r.rankIssued \/ completion = CompletionThrows
        /\ reqs' = [reqs EXCEPT ![s] = [Searched(r, completion) EXCEPT !.pc = "done"]]
        /\ UNCHANGED << heap, conversations, idCounter, accepted, firstMessage >>

SearchCallAny ==
    \E found \in FileStates : \E kind \in {"products", "kits"} :
        \E keyword \in Keywords : \E maxPrice \in Ceilings : \E limit \in Limits :
            SearchCall(1, found, kind, keyword, maxPrice, limit)
SearchReturnAny == \E c \in VectorCompletions : SearchReturn(1, c)

SearchNext == SearchCallAny \/ SearchReturnAny

SearchSpec == Init /\ [][SearchNext]_vars

(* ------------------------------ properties ----------------------------- *)
\* the invocations that have called searchAndFormatProducts or
\* searchAndFormatKits
SearchSlots == {s \in Slots : reqs[s].searches > 0}

\* the arguments of the call of slot s
ArgumentsOf(s) ==
    [kind |-> reqs[s].search.kind, keyword |-> reqs[s].search.keyword,
     maxPrice |-> reqs[s].search.maxPrice, limit |-> reqs[s].search.limit]

\* what the precise matcher returns for the arguments of the call of slot s
PreciseOf(s) ==
    SearchPrecise(reqs[s].search.kind,
                  ReadFile(reqs[s].search.files, reqs[s].search.kind),
                  reqs[s].search.keyword, reqs[s].search.maxPrice,
                  reqs[s].search.limit)

\* C1: in a call of searchAndFormatProducts or searchAndFormatKits whose
\* precise matcher finds at least one record, the semantic matcher is not
\* invoked, no ranking call is issued, the call returns without suspending
\* and the text returned is the formatting of the precise records.
C1_PreciseHitSkipsSemantic ==
    \A s \in SearchSlots :
        Len(PreciseOf(s)) > 0 =>
            /\ reqs[s].vectorCalls = << >>
            /\ reqs[s].rankCalls = 0
            /\ reqs[s].pc = "done"
            /\ reqs[s].searchResult = FormatResults(reqs[s].search.kind, PreciseOf(s))

\* a call with a price ceiling whose precise matcher found two records or
\* more has returned
C1_Witness ==
    \E s \in SearchSlots :
        /\ Len(PreciseOf(s)) >= 2
        /\ TruthyNum(reqs[s].search.maxPrice)
        /\ reqs[s].pc = "done"

\* C2: in a call whose precise matcher finds nothing, the semantic matcher
\* is invoked exactly once, with the keyword, ceiling and limit of the call,
\* and at most one ranking call is issued; once it has returned, the text is
\* the fixed no-results message when it returned nothing and the formatting
\* of its records otherwise.
C2_EmptyPreciseFallsBack ==
    \A s \in SearchSlots :
        Len(PreciseOf(s)) = 0 =>
            /\ reqs[s].vectorCalls = << ArgumentsOf(s) >>
            /\ reqs[s].rankCalls <= 1
            /\ reqs[s].pc \in {"awaitVector", "done"}
            /\ reqs[s].pc = "done" =>
                  reqs[s].searchResult =
                     IF Len(reqs[s].vectorResults) = 0
                     THEN NoResultsMessage(reqs[s].search.kind)
                     ELSE FormatResults(reqs[s].search.kind, reqs[s].vectorResults)

\* a fallback has returned semantic records
C2_Witness ==
    \E s \in SearchSlots :
        /\ Len(PreciseOf(s)) = 0
        /\ reqs[s].pc = "done"
        /\ Len(reqs[s].vectorResults) > 0

\* a fallback has returned the fixed message after the model was asked
C2_WitnessEmpty ==
    \E s \in SearchSlots :
        /\ Len(PreciseOf(s)) = 0
        /\ reqs[s].pc = "done"
        /\ reqs[s].rankCalls = 1
        /\ reqs[s].searchResult = NoResultsMessage(reqs[s].search.kind)

\* the last element of a non-empty sequence
Last(seq) == seq[Len(seq)]

\* the text contains the token, whatever the case of its letters
HasToken(text, token) == text # Null /\ Includes(ToLowerCase(text), token)
HasGreetingToken(text) == HasToken(text, TokHola) \/ HasToken(text, TokHello)
HasSelectorToken(text) == HasToken(text, TokPromoselect) \/ HasToken(text, TokSuitup)

\* a message that is neither a greeting nor a unit selection
IsFreeFormMessage(text) ==
    text # Null /\ ~HasGreetingToken(text) /\ ~HasSelectorToken(text)

\* slot s receives a request in this step
Receives(s) ==
    /\ accepted' = accepted + 1
    /\ reqs'[s].seq = accepted'
    /\ reqs'[s].path # "search"

\* a suspended invocation of slot s ends in this step
Resumes(s) == InFlight(reqs[s]) /\ reqs[s].path # "search" /\ reqs'[s].pc = "done"

\* the price ceiling a stored budget stands for, in hundredths
CeilingOf(precio) == Num(100 * DigitsValue(StripNonDigits(precio), 0))

\* the texts hybrid retrieval can return for a unit, a keyword and a
\* budget: one per answer of the ranking model
RetrievalTexts(found, unit, descripcion, precio) ==
    IF unit = Null THEN {}
    ELSE LET kind == IF unit = Promoselect THEN "products" ELSE "kits"
             start == HybridStart(found, kind, descripcion, CeilingOf(precio),
                                  DefaultLimit)
         IN  IF start.returned THEN {start.text}
             ELSE { VectorText(kind, HybridVector(found, kind, CeilingOf(precio),
                                                  start.rankIssued, c)) :
                       c \in VectorCompletions }

\* C3 as stated: whatever the active agent, a free-form request that finds
\* the description and the budget already stored and succeeds records the
\* retrieval text for them.
C3_RetrievalWhateverAgent ==
    [][\A s \in Slots :
          LET context == heap[reqs[s].obj].context
              response == reqs'[s].response
          IN  ( /\ Resumes(s)
                /\ IsFreeFormMessage(reqs[s].message)
                /\ Truthy(context.descripcion) /\ Truthy(context.precio)
                /\ response.status = 200 )
              => Last(response.messages).content \in
                    RetrievalTexts(reqs'[s].search.files, context.business_unit,
                                   context.descripcion, context.precio)]_vars

\* C3 amended: a free-form request that finds the business unit, the
\* description and the budget already stored and succeeds records the
\* retrieval text for the stored description and budget, in the catalogue
\* of the unit, tagged with the unit's agent; without a business unit the
\* model's reply is recorded.
C3_RetrievalWhenUnitSet ==
    [][\A s \in Slots :
          LET context == heap[reqs[s].obj].context
              response == reqs'[s].response
          IN  ( /\ Resumes(s)
                /\ IsFreeFormMessage(reqs[s].message)
                /\ Truthy(context.descripcion) /\ Truthy(context.precio)
                /\ response.status = 200 )
              => IF context.business_unit # Null
                 THEN /\ Last(response.messages).content \in
                            RetrievalTexts(reqs'[s].search.files,
                                           context.business_unit,
                                           context.descripcion, context.precio)
                      /\ Last(response.messages).agent = response.current_agent
                      /\ response.context = context
                 ELSE Last(response.messages).content = reqs'[s].modelReply]_vars

\* a free-form request on a specialist's conversation has recorded a
\* retrieval text that is not the reply of the dialogue model
C3_Witness ==
    \E s \in Slots :
        /\ reqs[s].pc = "done" /\ reqs[s].path = "freeform"
        /\ IsFreeFormMessage(reqs[s].message)
        /\ reqs[s].response.status = 200
        /\ reqs[s].searches = 1
        /\ reqs[s].response.context.business_unit # Null
        /\ Last(reqs[s].response.messages).content = reqs[s].searchResult
        /\ reqs[s].modelReply # reqs[s].searchResult
        /\ Len(reqs[s].preciseResults) > 0

\* C4: for requests handled one at a time, a stored conversation stays
\* stored, and its descripcion and its precio, once not null, keep their
\* value in every later step.
C4_SlotsNeverChange ==
    [][\A k \in DOMAIN conversations :
          /\ k \in DOMAIN conversations'
          /\ Stored(k).context.descripcion # Null =>
                heap'[conversations'[k]].context.descripcion
                   = Stored(k).context.descripcion
          /\ Stored(k).context.precio # Null =>
                heap'[conversations'[k]].context.precio = Stored(k).context.precio]_vars

\* a request whose message would fill a slot differently has succeeded on a
\* conversation whose slots were filled before
C4_Witness ==
    \E s \in Slots :
        /\ reqs[s].pc = "done" /\ reqs[s].path = "freeform"
        /\ reqs[s].response.status = 200
        /\ reqs[s].searches = 0
        /\ Len(reqs[s].message) > 3
        /\ reqs[s].response.context.descripcion \notin {Null, reqs[s].message}
        /\ reqs[s].response.context.precio # Null

\* C5: the business unit of a stored conversation, once not null, is one of
\* the two units in every later step.
C5_UnitNeverCleared ==
    [][\A k \in DOMAIN conversations :
          /\ k \in DOMAIN conversations'
          /\ Stored(k).context.business_unit # Null =>
                heap'[conversations'[k]].context.business_unit
                   \in {Promoselect, SuitUp}]_vars

\* a conversation handed to Promoselect earlier is now with SuitUp, and a
\* later free-form request on it has ended
C5_Witness ==
    \E s \in Slots :
        /\ reqs[s].pc = "done" /\ reqs[s].path = "freeform"
        /\ reqs[s].convId \in DOMAIN conversations
        /\ Stored(reqs[s].convId).context.business_unit = SuitUp
        /\ \E i \in 1..Len(Stored(reqs[s].convId).events) :
              Stored(reqs[s].convId).events[i].agent = PromoselectAgent
\* the conversation a request of slot s found: the stored one, or the one
\* built for it, whose logs hold nothing but the 'Agent initialized' event
FoundMessages(s) ==
    IF reqs'[s].created THEN << >> ELSE heap[reqs'[s].obj].messages
FoundEvents(s) ==
    IF reqs'[s].created THEN << reqs'[s].response.events[1] >>
    ELSE heap[reqs'[s].obj].events

\* the greeting rule handles the request slot s receives in this step
ByGreetingRule(s) ==
    reqs'[s].created /\ (reqs'[s].message = Null \/ reqs'[s].message = << >>
                            \/ HasGreetingToken(reqs'[s].message))

\* the request slot s receives in this step ends in it as a selection of
\* the unit: no model call, one welcome message, one handoff event, and
\* the conversation stored as returned
SelectsUnit(s, unit, agent, welcome) ==
    LET r == reqs'[s]
        response == r.response
    IN  /\ r.pc = "done"
        /\ r.dialogueCalls = 0 /\ r.rankCalls = 0 /\ r.searches = 0
        /\ response.status = 200
        /\ response.context.business_unit = unit
        /\ response.current_agent = agent
        /\ response.messages =
              Append(FoundMessages(s), [content |-> welcome, agent |-> agent])
        /\ Len(response.events) = Len(FoundEvents(s)) + 1
        /\ SubSeq(response.events, 1, Len(FoundEvents(s))) = FoundEvents(s)
        /\ Last(response.events).type = "handoff"
        /\ Last(response.events).agent = agent
        /\ r.convId \in DOMAIN conversations'
        /\ heap'[conversations'[r.convId]].context = response.context
        /\ heap'[conversations'[r.convId]].current_agent = agent
        /\ heap'[conversations'[r.convId]].messages = response.messages
        /\ heap'[conversations'[r.convId]].events = response.events

\* C6: a request the greeting rule does not handle and whose message
\* contains 'promoselect' in any case ends without a model call, with
\* business_unit promoselect, Promoselect Agent current, the fixed welcome
\* message appended once and one handoff event appended; a message that
\* contains 'suitup' and not 'promoselect' does the same for suitup and
\* SuitUp Agent.
C6_SelectorNeedsNoModel ==
    [][\A s \in Slots :
          (Receives(s) /\ reqs'[s].message # Null /\ ~ByGreetingRule(s)) =>
             /\ HasToken(reqs'[s].message, TokPromoselect) =>
                   SelectsUnit(s, Promoselect, PromoselectAgent, PromoselectWelcome)
             /\ ( /\ HasToken(reqs'[s].message, TokSuitup)
                  /\ ~HasToken(reqs'[s].message, TokPromoselect) ) =>
                   SelectsUnit(s, SuitUp, SuitUpAgent, SuitUpWelcome)]_vars

\* a stored conversation of the Promoselect Agent was handed to SuitUp by a
\* message that also greets, with no model call
C6_Witness ==
    \E s \in Slots :
        /\ reqs[s].pc = "done" /\ reqs[s].path = "suitup"
        /\ ~reqs[s].created
        /\ HasGreetingToken(reqs[s].message)
        /\ reqs[s].dialogueCalls = 0
        /\ reqs[s].response.status = 200
        /\ reqs[s].response.current_agent = SuitUpAgent
        /\ Len(reqs[s].response.messages) >= 2
        /\ reqs[s].response.messages[Len(reqs[s].response.messages) - 1].agent
              = PromoselectAgent

\* a new conversation was handed to Promoselect by its first message
C6_WitnessNew ==
    \E s \in Slots :
        /\ reqs[s].pc = "done" /\ reqs[s].path = "promoselect"
        /\ reqs[s].created
        /\ reqs[s].response.status = 200
        /\ Len(reqs[s].response.events) = 2

\* C7: a request without conversation id whose message contains 'hola' or
\* 'hello' in any case ends with a response whose only message is
\* DISPLAY_BUSINESS_SELECTOR of the Triage Agent, whose agent is the Triage
\* Agent, whose context is empty and whose conversation_id was not a key of
\* the Map; the Map then holds the conversation under that id.
C7_GreetingWithoutId ==
    [][\A s \in Slots :
          ( /\ Receives(s)
            /\ reqs'[s].conversation_id = Null
            /\ HasGreetingToken(reqs'[s].message) ) =>
             LET response == reqs'[s].response
             IN  /\ reqs'[s].pc = "done"
                 /\ response.status = 200
                 /\ response.messages =
                       << [content |-> DisplayBusinessSelector,
                           agent |-> TriageAgent] >>
                 /\ response.current_agent = TriageAgent
                 /\ response.context =
                       [business_unit |-> Null, customer_name |-> Null,
                        selected_products |-> << >>, descripcion |-> Null,
                        precio |-> Null]
                 /\ response.conversation_id \notin DOMAIN conversations
                 /\ response.conversation_id \in DOMAIN conversations'
                 /\ heap'[conversations'[response.conversation_id]].messages
                       = response.messages
                 /\ heap'[conversations'[response.conversation_id]].current_agent
                       = TriageAgent]_vars

\* a greeting without id was answered with the directive while the Map
\* already held another conversation
C7_Witness ==
    \E s \in Slots :
        /\ reqs[s].pc = "done" /\ reqs[s].path = "greeting"
        /\ reqs[s].conversation_id = Null
        /\ HasGreetingToken(reqs[s].message)
        /\ reqs[s].response.status = 200
        /\ Cardinality(DOMAIN conversations) = 2
\* the request slot s receives in this step ends in it with the selector
\* directive of the Triage Agent and without a model call
AnsweredWithSelector(s) ==
    LET r == reqs'[s]
    IN  /\ r.pc = "done"
        /\ r.dialogueCalls = 0 /\ r.rankCalls = 0
        /\ r.response.status = 200
        /\ r.response.current_agent = TriageAgent
        /\ Last(r.response.messages) =
              [content |-> DisplayBusinessSelector, agent |-> TriageAgent]

\* C8: every request without conversation id, whatever its message, is
\* answered with DISPLAY_BUSINESS_SELECTOR by the Triage Agent and makes no
\* model call.
C8_NoIdAlwaysSelector ==
    [][\A s \in Slots :
          (Receives(s) /\ reqs'[s].conversation_id = Null)
             => AnsweredWithSelector(s)]_vars

\* C9: every request whose message contains a greeting token, also on a
\* stored conversation and also when the message names a unit, is answered
\* with DISPLAY_BUSINESS_SELECTOR, returns the conversation to the Triage
\* Agent and makes no model call.
C9_GreetingAlwaysReenters ==
    [][\A s \in Slots :
          (Receives(s) /\ HasGreetingToken(reqs'[s].message))
             => AnsweredWithSelector(s)]_vars

\* a request of slot s ends in this step
Completes(s) == (Receives(s) /\ reqs'[s].pc = "done") \/ Resumes(s)

\* the conversation of key k is with a specialist and has its description
\* and its budget
ReadyToSearch(k) ==
    /\ k \in DOMAIN conversations
    /\ Stored(k).context.business_unit # Null
    /\ Stored(k).context.descripcion # Null
    /\ Stored(k).context.precio # Null

\* the reply of hybrid retrieval for the stored description and budget of
\* the conversation of key k, given what the call found in the directory:
\* the formatting of the precise records when there are some
IsRetrievalReply(content, k, found) ==
    LET context == Stored(k).context
        kind == IF context.business_unit = Promoselect THEN "products" ELSE "kits"
        table == ReadFile(found, kind)
        precise == SearchPrecise(kind, table, context.descripcion,
                                 CeilingOf(context.precio), DefaultLimit)
    IN  IF Len(precise) > 0 THEN content = FormatResults(kind, precise)
        ELSE \/ content = NoResultsMessage(kind)
             \/ \E c \in VectorCompletions :
                   content = FormatResults(kind,
                                SearchVector(kind, table, CeilingOf(context.precio), c))

\* C10 as stated, for the requests that succeed: on a conversation with
\* unit, description and budget, the reply recorded for a message of any
\* content is the retrieval reply.
C10_RetrievalWhateverContent ==
    [][\A s \in Slots : \A k \in DOMAIN conversations :
          ( /\ Completes(s)
            /\ reqs'[s].convId = k
            /\ ReadyToSearch(k)
            /\ reqs'[s].response.status = 200 )
             => IsRetrievalReply(Last(heap'[conversations'[k]].messages).content,
                                 k, reqs'[s].search.files)]_vars

\* C10 amended: on a stored conversation with unit, description and
\* budget, a request that succeeds and whose message contains no selector
\* token, a greeting included, appends one reply, the retrieval reply for
\* the stored description and budget in the catalogue of the stored unit,
\* and leaves the context as it was.
C10_RetrievalUnlessSelector ==
    [][\A s \in Slots : \A k \in DOMAIN conversations :
          ( /\ Completes(s)
            /\ reqs'[s].convId = k
            /\ ReadyToSearch(k)
            /\ ~HasSelectorToken(reqs'[s].message)
            /\ reqs'[s].response.status = 200 )
             => /\ k \in DOMAIN conversations'
                /\ Len(heap'[conversations'[k]].messages)
                      = Len(Stored(k).messages) + 1
                /\ IsRetrievalReply(Last(heap'[conversations'[k]].messages).content,
                                    k, reqs'[s].search.files)
                /\ reqs'[s].searches = 1
                /\ heap'[conversations'[k]].context = Stored(k).context]_vars

\* a greeting sent to a conversation with unit, description and budget was
\* answered with records the precise matcher kept under the budget
C10_Witness ==
    \E s \in Slots :
        /\ reqs[s].pc = "done" /\ reqs[s].path = "freeform"
        /\ HasGreetingToken(reqs[s].message)
        /\ reqs[s].response.status = 200
        /\ reqs[s].searches = 1
        /\ Len(reqs[s].preciseResults) > 0
        /\ TruthyNum(reqs[s].search.maxPrice)
        /\ Last(reqs[s].response.messages).content = reqs[s].searchResult

\* a retrieval reply came from the semantic matcher
C10_WitnessSemantic ==
    \E s \in Slots :
        /\ reqs[s].pc = "done" /\ reqs[s].path = "freeform"
        /\ reqs[s].response.status = 200
        /\ Len(reqs[s].vectorResults) > 0
        /\ Last(reqs[s].response.messages).content = reqs[s].searchResult
\* slot s calls searchAndFormatProducts or searchAndFormatKits in this step
\* while it handles a request
InvokesRetrieval(s) ==
    /\ reqs'[s].path # "search"
    /\ reqs'[s].searches > 0
    /\ (reqs[s].seq # reqs'[s].seq \/ reqs'[s].searches > reqs[s].searches)

\* C11: a request calls hybrid retrieval only on the free-form path and
\* only when the business unit, the description and the budget of its
\* conversation are not null at that moment; the catalogue is the items
\* for promoselect and the kits for suitup, and a request on the greeting
\* path or on a selection path has called none.
C11_RetrievalOnlyWhenReady ==
    [][\A s \in Slots :
          /\ InvokesRetrieval(s) =>
                LET context == heap[reqs[s].obj].context
                IN  /\ reqs[s].seq = reqs'[s].seq
                    /\ reqs'[s].path = "freeform"
                    /\ context.business_unit # Null
                    /\ context.descripcion # Null
                    /\ context.precio # Null
                    /\ context.business_unit = Promoselect
                          => reqs'[s].search.kind = "products"
                    /\ context.business_unit = SuitUp
                          => reqs'[s].search.kind = "kits"
                    /\ context.business_unit \in {Promoselect, SuitUp}
          /\ reqs'[s].path \in {"greeting", "promoselect", "suitup", "throw"} =>
                /\ reqs'[s].searches = 0
                /\ reqs'[s].vectorCalls = << >>
                /\ reqs'[s].rankCalls = 0]_vars

\* a request on a conversation handed to SuitUp has searched the kits
C11_Witness ==
    \E s \in Slots :
        /\ reqs[s].pc = "done" /\ reqs[s].path = "freeform"
        /\ reqs[s].searches = 1
        /\ reqs[s].search.kind = "kits"
        /\ reqs[s].response.status = 200
        /\ reqs[s].response.context.business_unit = SuitUp
\* the message log of the conversation of slot s when the request that
\* ends in this step was received or resumed
MessagesBefore(s) ==
    IF Receives(s) THEN FoundMessages(s) ELSE heap[reqs[s].obj].messages

\* C12: a request that ends with a success response has appended exactly
\* one message to the log it found, tagged with the current agent of the
\* response, and the Map holds under the response's conversation_id a
\* conversation with the agent, context, messages and events of the
\* response.
C12_OneReplyStoredAsReturned ==
    [][\A s \in Slots :
          (Completes(s) /\ reqs'[s].response.status = 200) =>
             LET response == reqs'[s].response
                 k == response.conversation_id
             IN  /\ Len(response.messages) = Len(MessagesBefore(s)) + 1
                 /\ SubSeq(response.messages, 1, Len(MessagesBefore(s)))
                       = MessagesBefore(s)
                 /\ Last(response.messages).agent = response.current_agent
                 /\ k = reqs'[s].convId
                 /\ k \in DOMAIN conversations'
                 /\ heap'[conversations'[k]].current_agent = response.current_agent
                 /\ heap'[conversations'[k]].context = response.context
                 /\ heap'[conversations'[k]].messages = response.messages
                 /\ heap'[conversations'[k]].events = response.events]_vars

\* a conversation was greeted, handed to a specialist and then answered by
\* it: three replies of two agents
C12_Witness ==
    \E s \in Slots :
        /\ reqs[s].pc = "done" /\ reqs[s].path = "freeform"
        /\ reqs[s].response.status = 200
        /\ Len(reqs[s].response.messages) = 3
        /\ reqs[s].response.messages[1] =
              [content |-> DisplayBusinessSelector, agent |-> TriageAgent]
        /\ reqs[s].response.messages[3].agent = PromoselectAgent
        /\ reqs[s].response.current_agent = PromoselectAgent
\* seq is a prefix of longer
IsPrefix(seq, longer) ==
    Len(seq) <= Len(longer) /\ SubSeq(longer, 1, Len(seq)) = seq

\* C13: for requests handled one at a time, the stored message log and the
\* stored event log of a conversation are prefixes of its logs after every
\* step.
C13_LogsAppendOnly ==
    [][\A k \in DOMAIN conversations :
          /\ k \in DOMAIN conversations'
          /\ IsPrefix(Stored(k).messages, heap'[conversations'[k]].messages)
          /\ IsPrefix(Stored(k).events, heap'[conversations'[k]].events)]_vars

\* a stored conversation has been handed over twice and holds two handoff
\* events after its first event
C13_Witness ==
    \E k \in DOMAIN conversations :
        /\ Len(Stored(k).events) = 3
        /\ Stored(k).events[2].type = "handoff"
        /\ Stored(k).events[3].type = "handoff"
        /\ Len(Stored(k).messages) >= 2
\* the table a call of slot s read
TableRead(s) == ReadFile(reqs[s].search.files, reqs[s].search.kind)

\* the keyword is empty or occurs in the field, whatever the case of the
\* letters
KeywordIn(keyword, field) ==
    \/ keyword = Null \/ keyword = << >>
    \/ field # Null /\ Includes(ToLowerCase(field), ToLowerCase(keyword))

\* the lines of the scanned prefix whose row is named and satisfies the
\* keyword predicate and the price predicate of the call of slot s
MatchingLines(s) ==
    LET table == TableRead(s)
        kind == reqs[s].search.kind
        scanned == IF kind = "products" THEN PromoPreciseScan ELSE SuitupPreciseScan
    IN  { i \in 2..Len(table.lines) :
            /\ i <= scanned
            /\ Prop(table.rows[i], KeyNombre) \notin {Null, << >>}
            /\ \/ KeywordIn(reqs[s].search.keyword, Prop(table.rows[i], KeyNombre))
               \/ KeywordIn(reqs[s].search.keyword,
                            Prop(table.rows[i], KeyDescripcion))
               \/ KeywordIn(reqs[s].search.keyword,
                            Prop(table.rows[i], ExtraKey(kind)))
            /\ WithinBudget(Prop(table.rows[i], KeyPrecio), reqs[s].search.maxPrice) }

\* the n-th element of a set of numbers in increasing order
NthOf(set, n) == CHOOSE j \in set : Cardinality({x \in set : x < j}) = n - 1

C14_WitnessCategory ==
    \E s \in SearchSlots :
        /\ reqs[s].search.keyword \notin {Null, << >>}
        /\ Len(reqs[s].preciseResults) = 1
        /\ ~KeywordIn(reqs[s].search.keyword, reqs[s].preciseResults[1].nombre)
        /\ ~KeywordIn(reqs[s].search.keyword, reqs[s].preciseResults[1].descripcion)
\* a number was passed as price ceiling to the call of slot s
CeilingGiven(s) == reqs[s].search.maxPrice.t = "num"

\* the price of a record is known, above 0 and within the ceiling
PricedWithin(record, maxPrice) ==
    /\ NumGt(ParsePrice(record.precio), Num(0))
    /\ NumLe(ParsePrice(record.precio), maxPrice)

\* C15: whenever a price ceiling is passed to the precise matcher, the
\* ceiling 0 included, every record it returns has a parsed price above 0
\* and at most the ceiling.
C15_PreciseUnderCeiling ==
    \A s \in SearchSlots :
        CeilingGiven(s) =>
            \A n \in 1..Len(reqs[s].preciseResults) :
                PricedWithin(reqs[s].preciseResults[n], reqs[s].search.maxPrice)

\* C15 for the ceilings above 0: every record the precise matcher returns
\* has a parsed price above 0 and at most the ceiling.
C15_PreciseUnderPositiveCeiling ==
    \A s \in SearchSlots :
        (CeilingGiven(s) /\ reqs[s].search.maxPrice.v > 0) =>
            \A n \in 1..Len(reqs[s].preciseResults) :
                PricedWithin(reqs[s].preciseResults[n], reqs[s].search.maxPrice)
\* C16: whatever the ranking model replies, the semantic matcher returns
\* at most limit records.
C16_SemanticAtMostLimit ==
    \A s \in SearchSlots :
        Len(reqs[s].vectorResults) <= reqs[s].search.limit

\* C17: whenever a price ceiling is passed to the semantic matcher, every
\* record it returns has a known price, above 0 and at most the ceiling.
C17_SemanticUnderCeiling ==
    \A s \in SearchSlots :
        CeilingGiven(s) =>
            \A n \in 1..Len(reqs[s].vectorResults) :
                PricedWithin(reqs[s].vectorResults[n], reqs[s].search.maxPrice)

\* the part of C17 the local filter does ensure: under a ceiling above 0 no
\* record of the semantic matcher has a known price above the ceiling
C17_NoKnownPriceAboveCeiling ==
    \A s \in SearchSlots :
        (CeilingGiven(s) /\ reqs[s].search.maxPrice.v > 0) =>
            \A n \in 1..Len(reqs[s].vectorResults) :
                LET price == ParsePrice(reqs[s].vectorResults[n].precio)
                IN  NumGt(price, Num(0)) => NumLe(price, reqs[s].search.maxPrice)
\* the completion call failed or gave nothing to read: it raised, it
\* returned no choice, or its first choice has no content
IsFailedCompletion(completion) ==
    \/ completion.t = "throw"
    \/ completion.t = "nochoice"
    \/ completion.t = "ok" /\ completion.content = Null

\* C18: when the ranking call of the semantic matcher fails, the matcher
\* returns no record, the retrieval text is the fixed no-results message,
\* and the request that searched ends with a success response whose last
\* message is that text.
C18_RankingFailureGivesNoResults ==
    \A s \in Slots :
        ( /\ reqs[s].pc = "done"
          /\ reqs[s].rankCalls = 1
          /\ IsFailedCompletion(reqs[s].rankReply) ) =>
            /\ reqs[s].vectorResults = << >>
            /\ reqs[s].searchResult = NoResultsMessage(reqs[s].search.kind)
            /\ reqs[s].path = "freeform" =>
                  /\ reqs[s].response.status = 200
                  /\ Last(reqs[s].response.messages).content
                        = NoResultsMessage(reqs[s].search.kind)

\* a request whose ranking call returned no choice has recorded the
\* no-results message
C18_Witness ==
    \E s \in Slots :
        /\ reqs[s].pc = "done" /\ reqs[s].path = "freeform"
        /\ reqs[s].rankCalls = 1
        /\ reqs[s].rankReply = CompletionNoChoice
        /\ reqs[s].response.status = 200
        /\ Last(reqs[s].response.messages).content
              = NoResultsMessage(reqs[s].search.kind)

\* the same after a ranking call that raised, and after one without content
C18_WitnessThrows ==
    \E s \in Slots :
        /\ reqs[s].pc = "done" /\ reqs[s].path = "freeform"
        /\ reqs[s].rankReply = CompletionThrows
        /\ reqs[s].response.status = 200
C18_WitnessNoContent ==
    \E s \in Slots :
        /\ reqs[s].pc = "done" /\ reqs[s].path = "freeform"
        /\ reqs[s].rankReply = Completion("ok", Null)
        /\ reqs[s].response.status = 200
\* C19: a free-form request whose dialogue call raised ends with a success
\* response whose last message is the fallback text.
C19_DialogueFailureFallsBack ==
    \A s \in Slots :
        (reqs[s].pc = "done" /\ reqs[s].dialogueThrew) =>
            /\ reqs[s].response.status = 200
            /\ Last(reqs[s].response.messages).content = DialogueFallback
\* C20: a request without message field ends at once with a response of
\* the 4xx class, whatever its conversation id, and leaves the Map and the
\* stored conversations as they were.
C20_MissingMessageIs4xx ==
    [][\A s \in Slots :
          (Receives(s) /\ reqs'[s].message = Null) =>
             /\ reqs'[s].pc = "done"
             /\ reqs'[s].response.status \in 400..499
             /\ conversations' = conversations
             /\ \A k \in DOMAIN conversations :
                   heap'[conversations'[k]] = Stored(k)]_vars

\* what the handler does instead for a stored conversation: status 500,
\* with the Map and the stored conversations as they were
C20_MissingMessageOnStoredIs500 ==
    [][\A s \in Slots :
          (Receives(s) /\ reqs'[s].message = Null /\ ~reqs'[s].created) =>
             /\ reqs'[s].pc = "done"
             /\ reqs'[s].response.status = 500
             /\ conversations' = conversations
             /\ \A k \in DOMAIN conversations :
                   heap'[conversations'[k]] = Stored(k)]_vars
\* the body and status the catch block gives for an Error with this text
IsInternalError(response, text) ==
    /\ response.status = 500
    /\ response.error = << "Internal server error" >>
    /\ response.message = text

\* C21: every request the handler has finished was answered, with status
\* 200 or with status 500; one that raised an exception (message.toLowerCase
\* on a missing message, or a rejected dialogue call) was answered with
\* status 500, error 'Internal server error' and the exception's message
\* text, and no other request was.
C21_ExceptionsAnsweredWith500 ==
    \A s \in Slots :
        (reqs[s].pc = "done" /\ reqs[s].path # "search") =>
            /\ reqs[s].response.status \in {200, 500}
            /\ (reqs[s].message = Null /\ ~reqs[s].created) =>
                  IsInternalError(reqs[s].response, UndefinedMessageError.message)
            /\ reqs[s].dialogueThrew =>
                  IsInternalError(reqs[s].response, CompletionError.message)
            /\ reqs[s].exception.t = "Error" =>
                  IsInternalError(reqs[s].response, reqs[s].exception.message)
            /\ reqs[s].response.status = 500 <=> reqs[s].exception # NoException

\* a request without message on a stored conversation was answered with
\* the TypeError's text
C21_Witness ==
    \E s \in Slots :
        /\ reqs[s].pc = "done" /\ reqs[s].path = "throw"
        /\ ~reqs[s].created
        /\ IsInternalError(reqs[s].response, UndefinedMessageError.message)

\* a request whose dialogue call was rejected was answered with the
\* rejection's text
C21_WitnessDialogue ==
    \E s \in Slots :
        /\ reqs[s].pc = "done" /\ reqs[s].dialogueThrew
        /\ IsInternalError(reqs[s].response, CompletionError.message)
\* the table of the call of slot s is not in the directory
TableMissing(s) == TableOf(reqs[s].search.kind) \notin reqs[s].search.files

\* C22: when the table is missing, the precise matcher returns no record,
\* the semantic matcher is called, issues no ranking call and returns no
\* record, the retrieval text is the fixed no-results message, and the
\* request that searched ends with a success response whose last message
\* is that text.
C22_MissingTableGivesNoResults ==
    \A s \in SearchSlots :
        TableMissing(s) =>
            /\ reqs[s].preciseResults = << >>
            /\ Len(reqs[s].vectorCalls) = 1
            /\ ~reqs[s].rankIssued /\ reqs[s].rankCalls = 0
            /\ reqs[s].rankReply = NoCompletion
            /\ reqs[s].exception = NoException
            /\ reqs[s].pc = "done" =>
                  /\ reqs[s].vectorResults = << >>
                  /\ reqs[s].searchResult = NoResultsMessage(reqs[s].search.kind)
                  /\ reqs[s].path = "freeform" =>
                        /\ reqs[s].response.status = 200
                        /\ Last(reqs[s].response.messages).content
                              = NoResultsMessage(reqs[s].search.kind)

\* a request searched the items while promo.csv was missing and recorded
\* the no-results message
C22_Witness ==
    \E s \in SearchSlots :
        /\ TableMissing(s)
        /\ reqs[s].pc = "done" /\ reqs[s].path = "freeform"
        /\ reqs[s].search.kind = "products"
        /\ reqs[s].response.status = 200
        /\ Last(reqs[s].response.messages).content = NoResultsMessage("products")

(* ------------------------------- C23 ----------------------------------- *)
\* a step taken by the invocation held in record t
StepOf(t) == reqs'[t] # reqs[t]

\* record s holds a request (running or answered) for another key than the
\* one the step of t works on
OtherKey(s, t) == s # t /\ reqs[s].seq > 0 /\ reqs'[t].convId # reqs[s].convId

\* both records hold answered requests whose executions overlapped
Overlapped ==
    /\ reqs[1].pc = "done" /\ reqs[2].pc = "done"
    /\ reqs[1].seq > 0 /\ reqs[2].seq = reqs[1].seq + 1

\* C23: two requests addressed to different conversation ids are independent
\* under every interleaving at the suspension points: a step of one of them
\* leaves the other request (its position, its response), the object the other
\* one works on and every conversation stored under another key exactly as
\* they were, so each request computes, from its own conversation, what it
\* computes when the two are handled one after the other (generated ids
\* apart, which the program draws at random)
C23_DifferentIdsIndependent ==
    [][\A t \in Slots :
         StepOf(t) =>
           /\ \A s \in Slots :
                OtherKey(s, t) =>
                  /\ reqs'[s] = reqs[s]
                  /\ InFlight(reqs[s]) =>
                        /\ reqs[s].obj \in DOMAIN heap'
                        /\ heap'[reqs[s].obj] = heap[reqs[s].obj]
           /\ \A k \in DOMAIN conversations :
                k # reqs'[t].convId =>
                  /\ k \in DOMAIN conversations'
                  /\ conversations'[k] = conversations[k]
                  /\ heap'[conversations'[k]] = Stored(k)]_vars

\* two overlapping free-form requests for different keys, both answered and
\* each stored with its own reply
C23_Witness ==
    /\ Overlapped
    /\ reqs[1].convId # reqs[2].convId
    /\ \A s \in Slots :
          /\ reqs[s].path \in {"freeform", "search"}
          /\ reqs[s].response.status = 200
          /\ reqs[s].convId \in DOMAIN conversations
          /\ Stored(reqs[s].convId).messages = reqs[s].response.messages

(* ------------------------------- C24 ----------------------------------- *)
\* the conversation a 200 response shows
Returned(r) ==
    [current_agent |-> r.response.current_agent, messages |-> r.response.messages,
     events |-> r.response.events, context |-> r.response.context]

\* the same four fields of a stored conversation
Shown(conversation) ==
    [current_agent |-> conversation.current_agent, messages |-> conversation.messages,
     events |-> conversation.events, context |-> conversation.context]

\* C24: overlapping requests for one conversation id race with last write
\* wins: whenever a request returns 200, what is stored under its key is
\* exactly the conversation it returns, whatever another request wrote there
\* in the meantime; for an id that was not stored when both requests arrived
\* the earlier writer's reply and slot values are lost (C24_Witness)
C24_LastWriteWins ==
    [][\A s \in Slots :
         (Completes(s) /\ reqs'[s].response.status = 200) =>
            /\ reqs'[s].convId \in DOMAIN conversations'
            /\ conversations'[reqs'[s].convId] = reqs'[s].obj
            /\ Shown(heap'[reqs'[s].obj]) = Returned(reqs'[s])]_vars

\* both requests were suspended on the dialogue call for the same id; the
\* first one returned a conversation with its description and its reply, and
\* the stored conversation holds only the second one's reply and budget
C24_Witness ==
    /\ Overlapped
    /\ reqs[1].convId = reqs[2].convId
    /\ reqs[1].response.status = 200 /\ reqs[2].response.status = 200
    /\ reqs[1].response.context.descripcion # Null
    /\ Len(reqs[1].response.messages) = 1
    /\ Stored(reqs[2].convId).context.descripcion = Null
    /\ Stored(reqs[2].convId).context.precio # Null
    /\ Len(Stored(reqs[2].convId).messages) = 1
    /\ Shown(Stored(reqs[2].convId)) = Returned(reqs[2])

(* ------------------------------- C25 ----------------------------------- *)
\* the handoffs the roster declares for an agent
HandoffsOf(agent) ==
    LET entry == CHOOSE a \in {Agents[i] : i \in 1..Len(Agents)} : a.name = agent
    IN  {entry.handoffs[i] : i \in 1..Len(entry.handoffs)}

\* C25: every change of a conversation's current agent follows the roster:
\* the new agent is in the handoffs list of the agent it replaces
C25_HandoffsFollowRoster ==
    [][\A k \in DOMAIN conversations :
         (k \in DOMAIN conversations'
            /\ heap'[conversations'[k]].current_agent # Stored(k).current_agent) =>
         heap'[conversations'[k]].current_agent \in HandoffsOf(Stored(k).current_agent)]_vars

\* what does hold: a stored conversation's agent changes only on the
\* unit-selection path, and only to the specialist the message names
C25_AgentChangesOnSelection ==
    [][\A k \in DOMAIN conversations :
         (k \in DOMAIN conversations'
            /\ heap'[conversations'[k]].current_agent # Stored(k).current_agent) =>
         \E s \in Slots :
            /\ Completes(s) /\ reqs'[s].convId = k
            /\ \/ reqs'[s].path = "promoselect"
                  /\ heap'[conversations'[k]].current_agent = PromoselectAgent
               \/ reqs'[s].path = "suitup"
                  /\ heap'[conversations'[k]].current_agent = SuitUpAgent]_vars

\* a conversation went from one specialist to the other
C25_SpecialistToSpecialist ==
    \E k \in DOMAIN conversations :
        /\ Stored(k).current_agent = SuitUpAgent
        /\ \E i \in 1..Len(Stored(k).events) :
              Stored(k).events[i].type = "handoff"
              /\ Stored(k).events[i].agent = PromoselectAgent

(* ------------------------------- C26 ----------------------------------- *)
\* the request received in this step names no stored conversation
NamesNoStored(s) ==
    ~Truthy(reqs'[s].conversation_id) \/ reqs'[s].conversation_id \notin DOMAIN conversations

\* the 'Agent initialized' events of a conversation
InitEvents(conversation) ==
    {i \in 1..Len(conversation.events) :
        conversation.events[i].content = << "Agent initialized" >>}

\* the conversation is as built at 594-611, up to what the path of the first
\* request does to it before its first suspension or its return
AsCreated(conversation, path) ==
    /\ conversation.context.customer_name = Null
    /\ conversation.context.descripcion = Null
    /\ conversation.context.precio = Null
    /\ conversation.context.selected_products = << >>
    /\ InitEvents(conversation) = {1}
    /\ conversation.events[1].type = "message"
    /\ conversation.events[1].agent = TriageAgent
    /\ path \notin {"promoselect", "suitup"} =>
          /\ conversation.current_agent = TriageAgent
          /\ conversation.context.business_unit = Null
          /\ Len(conversation.events) = 1
    /\ path = "freeform" => conversation.messages = << >>

\* C26: a request that names no stored conversation builds one with Triage
\* Agent, null slots, no selected products and one 'Agent initialized'
\* event, under the id it supplied if it supplied one; a request that names
\* a stored conversation works on the stored object, and the entry of a
\* stored key is never replaced by another object
C26_CreatedOnlyWhenAbsent ==
    [][/\ \A s \in Slots :
            Receives(s) =>
              /\ reqs'[s].created <=> NamesNoStored(s)
              /\ Truthy(reqs'[s].conversation_id) =>
                    /\ reqs'[s].convId = reqs'[s].conversation_id
                    /\ reqs'[s].response.status = 200 =>
                          reqs'[s].response.conversation_id = reqs'[s].conversation_id
              /\ reqs'[s].created =>
                    /\ reqs'[s].obj \notin DOMAIN heap
                    /\ reqs'[s].convId \notin DOMAIN conversations
                    /\ reqs'[s].obj \in DOMAIN heap' =>
                          AsCreated(heap'[reqs'[s].obj], reqs'[s].path)
              /\ ~reqs'[s].created =>
                    /\ reqs'[s].obj = conversations[reqs'[s].convId]
                    /\ DOMAIN heap' = DOMAIN heap
       /\ \A k \in DOMAIN conversations :
            k \in DOMAIN conversations' /\ conversations'[k] = conversations[k]]_vars

\* a free-form request with an id the store does not hold is suspended on a
\* conversation just built, and one with no id was answered under a new id
C26_Witness ==
    /\ reqs[1].pc = "awaitDialogue" /\ reqs[1].created
    /\ reqs[1].conversation_id \in ClientIds
    /\ heap[reqs[1].obj] = NewConversation(reqs[1].conversation_id,
                                           heap[reqs[1].obj].events[1].id)
    /\ \E k \in DOMAIN conversations : k \notin ClientIds

\* a request with a stored id was answered from the stored conversation
C26_WitnessStored ==
    /\ reqs[1].pc = "done" /\ ~reqs[1].created /\ reqs[1].seq > 1
    /\ reqs[1].response.status = 200
    /\ Len(reqs[1].response.messages) > 1
    /\ InitEvents(Stored(reqs[1].convId)) = {1}

(* ------------------------------- C27 ----------------------------------- *)
\* the description stored under a key (null while the key is not stored)
DescriptionOf(convs, h, k) ==
    IF k \in DOMAIN convs THEN h[convs[k]].context.descripcion ELSE Null

\* the request completed in this step is a free-form one for key k, answered
\* 200, whose message is longer than 3 characters
DescribesIn(s, k) ==
    /\ Completes(s)
    /\ reqs'[s].convId = k
    /\ reqs'[s].path = "freeform"
    /\ reqs'[s].response.status = 200
    /\ Len(reqs'[s].message) > 3

\* C27 as stated: a description that is set equals the first non-empty message
\* the conversation received
C27_DescriptionIsFirstMessage ==
    \A k \in DOMAIN conversations :
        (Stored(k).context.descripcion # Null /\ k \in DOMAIN firstMessage) =>
            Stored(k).context.descripcion = firstMessage[k]

\* C27, amended: the description is set by the first message longer than 3
\* characters that is handled on the free-form path and answered 200, to that
\* message, and never changes afterwards (a greeting that opens the
\* conversation, a unit selection, a shorter message and a request answered
\* 500 set nothing)
C27_DescriptionIsFirstFreeForm ==
    [][\A k \in DOMAIN conversations' :
         LET before == DescriptionOf(conversations, heap, k)
             after == DescriptionOf(conversations', heap', k)
         IN  /\ before # Null => after = before
             /\ before = Null =>
                   /\ after # Null <=> \E s \in Slots : DescribesIn(s, k)
                   /\ \A s \in Slots : DescribesIn(s, k) => after = reqs'[s].message]_vars

\* a conversation opened by another message holds the first description it
\* was sent, and a different description sent later was answered 200
C27_Witness ==
    /\ reqs[1].pc = "done" /\ reqs[1].path = "freeform" /\ reqs[1].dialogueCalls = 1
    /\ reqs[1].response.status = 200
    /\ Len(reqs[1].message) > 3
    /\ reqs[1].convId \in DOMAIN conversations
    /\ Stored(reqs[1].convId).context.descripcion \notin {Null, reqs[1].message}
    /\ firstMessage[reqs[1].convId] # Stored(reqs[1].convId).context.descripcion

(* ------------------------------- C28 ----------------------------------- *)
\* a free-form request of slot s ends in this step with a 200
AnswersFreeForm(s) ==
    Resumes(s) /\ reqs[s].path = "freeform" /\ reqs'[s].response.status = 200

\* description and budget of the conversation the invocation of slot s
\* works on, as they are when it resumes
BothFilled(s) ==
    /\ heap[reqs[s].obj].context.descripcion # Null
    /\ heap[reqs[s].obj].context.precio # Null

\* the reply the request of slot s recorded and returned
RecordedReply(s) == Last(reqs'[s].response.messages).content

\* C28 as stated: the request that fills the last empty slot records the
\* model's reply without retrieval, and the next free-form message of the
\* conversation, which finds both slots filled, invokes retrieval
C28_RetrievalOnNextMessage ==
    [][\A s \in Slots :
         (Resumes(s) /\ reqs[s].path = "freeform") =>
            IF BothFilled(s)
            THEN reqs'[s].searches = 1
            ELSE /\ reqs'[s].searches = 0
                 /\ reqs'[s].response.status = 200 =>
                       RecordedReply(s) = reqs'[s].modelReply]_vars

\* C28, amended: a free-form request answered 200 that finds description or
\* budget empty records the model's reply and invokes no retrieval, also
\* when its own message fills what was missing; one that finds both filled
\* invokes retrieval exactly when the conversation has a business unit, and
\* then records the retrieval text; without a unit it records the model's
\* reply again
C28_RetrievalOnNextMessageWithUnit ==
    [][\A s \in Slots :
         AnswersFreeForm(s) =>
            IF BothFilled(s) /\ heap[reqs[s].obj].context.business_unit # Null
            THEN /\ reqs'[s].searches = 1
                 /\ RecordedReply(s) = reqs'[s].searchResult
                 /\ heap'[reqs'[s].obj].context = heap[reqs[s].obj].context
            ELSE /\ reqs'[s].searches = 0
                 /\ RecordedReply(s) = reqs'[s].modelReply]_vars

\* the message of the last request filled both slots of a conversation that
\* has a unit: the model's reply was recorded and nothing was searched
C28_Witness ==
    /\ reqs[1].pc = "done" /\ reqs[1].path = "freeform" /\ ~reqs[1].created
    /\ reqs[1].response.status = 200
    /\ reqs[1].searches = 0
    /\ Last(reqs[1].response.messages).content = reqs[1].modelReply
    /\ Stored(reqs[1].convId).context.business_unit # Null
    /\ Stored(reqs[1].convId).context.descripcion = reqs[1].message
    /\ Stored(reqs[1].convId).context.precio = FirstDigitRun(reqs[1].message)

\* the next free-form message of such a conversation was answered with the
\* retrieval text
C28_WitnessNext ==
    /\ reqs[1].pc = "done" /\ reqs[1].path = "freeform"
    /\ reqs[1].response.status = 200
    /\ reqs[1].searches = 1
    /\ Last(reqs[1].response.messages).content = reqs[1].searchResult
    /\ Len(reqs[1].response.messages) >= 3
    /\ Stored(reqs[1].convId).context.descripcion # reqs[1].message

(* ------------------------------- C29 ----------------------------------- *)
\* the message has a digit
HasDigit(m) == \E i \in 1..Len(m) : IsDigit(m[i])

\* run is the first maximal run of digits of m
IsFirstMaximalDigitRun(m, run) ==
    \E i \in 1..Len(m) : \E j \in i..Len(m) :
        /\ \A n \in 1..(i - 1) : ~IsDigit(m[n])
        /\ \A n \in i..j : IsDigit(m[n])
        /\ j = Len(m) \/ ~IsDigit(m[j + 1])
        /\ run = SubSeq(m, i, j)

\* texts with several digit runs, beyond the messages the requests carry
DigitTexts ==
    { << "1","2"," ","t","a","z","a","s"," ","5","0" >>,
      << "a","1","b","2","2" >>,
      << "$","7",".","5","0" >>,
      << "t","a","z","a" >> }

\* the match of /(\d+)/ is the first maximal run of digits, and there is
\* none exactly when the text has no digit
FirstMatchIsFirstRun ==
    \A m \in DigitTexts :
        IF HasDigit(m) THEN IsFirstMaximalDigitRun(m, FirstDigitRun(m))
        ELSE FirstDigitRun(m) = Null

\* what the extraction makes of a context, slot by slot
ExtractedFrom(before, after, m) ==
    /\ before.descripcion # Null => after.descripcion = before.descripcion
    /\ before.descripcion = Null =>
          IF Len(m) > 3 THEN after.descripcion = m ELSE after.descripcion = Null
    /\ before.precio # Null => after.precio = before.precio
    /\ before.precio = Null =>
          IF HasDigit(m) THEN IsFirstMaximalDigitRun(m, after.precio)
          ELSE after.precio = Null
    /\ after.business_unit = before.business_unit
    /\ after.customer_name = before.customer_name
    /\ after.selected_products = before.selected_products

\* C29: a free-form request that reaches the extraction (its dialogue call
\* returned and the conversation is not ready for retrieval) sets the
\* description, if empty, to the whole message exactly when the message is
\* longer than 3 characters, and the budget, if empty, to the first maximal
\* run of digits exactly when the message has a digit; a filled slot is
\* left as it is
C29_ExtractionFillsEmptySlots ==
    /\ FirstMatchIsFirstRun
    /\ [][\A s \in Slots :
            (AnswersFreeForm(s) /\ ~ShouldSearch(heap[reqs[s].obj].context)) =>
               ExtractedFrom(heap[reqs[s].obj].context, heap'[reqs'[s].obj].context,
                             reqs[s].message)]_vars

\* one message filled both slots of a new conversation
C29_Witness ==
    /\ reqs[1].pc = "done" /\ reqs[1].path = "freeform" /\ reqs[1].created
    /\ reqs[1].response.status = 200
    /\ Len(reqs[1].message) > 3 /\ HasDigit(reqs[1].message)
    /\ Stored(reqs[1].convId).context.descripcion = reqs[1].message
    /\ Stored(reqs[1].convId).context.precio = << "9", "9" >>

\* a short message with a digit filled the budget only, and a later long one
\* with another digit run filled the description only
C29_WitnessOneSlot ==
    /\ reqs[1].pc = "done" /\ reqs[1].path = "freeform" /\ ~reqs[1].created
    /\ reqs[1].response.status = 200
    /\ Stored(reqs[1].convId).context.descripcion = reqs[1].message
    /\ HasDigit(reqs[1].message)
    /\ Stored(reqs[1].convId).context.precio = << "0" >>

(* ------------------------------- C30 ----------------------------------- *)
\* the completion calls a request has issued, whatever its state
CallsOnce(r) ==
    /\ r.dialogueCalls <= 1 /\ r.rankCalls <= 1
    /\ r.path \in {"greeting", "promoselect", "suitup", "throw"} =>
          r.dialogueCalls = 0 /\ r.rankCalls = 0 /\ r.searches = 0
    /\ r.path = "freeform" => r.dialogueCalls = 1
    /\ r.rankCalls = 1 =>
          /\ r.searches = 1
          /\ r.preciseResults = << >>
          /\ r.rankIssued
    /\ r.searches = 1 /\ r.preciseResults # << >> => r.rankCalls = 0

\* the dialogue call is issued on the conversation as it was found or built:
\* nothing is pushed, set or stored before it
CalledBeforeMutation(s) ==
    (Receives(s) /\ reqs'[s].pc = "awaitDialogue") =>
        /\ UNCHANGED conversations
        /\ IF reqs'[s].created
           THEN /\ heap'[reqs'[s].obj].messages = << >>
                /\ Len(heap'[reqs'[s].obj].events) = 1
                /\ heap'[reqs'[s].obj].context.descripcion = Null
                /\ heap'[reqs'[s].obj].context.precio = Null
           ELSE heap'[reqs'[s].obj] = heap[reqs'[s].obj]

\* no completion call is repeated: a call that returned or failed is followed
\* by no further call of its kind in the same request
NoRetry(s) ==
    /\ reqs[s].pc = "awaitDialogue" /\ StepOf(s) =>
          reqs'[s].pc # "awaitDialogue" /\ reqs'[s].dialogueCalls = 1
    /\ reqs[s].pc = "awaitVector" /\ StepOf(s) =>
          reqs'[s].pc = "done" /\ reqs'[s].rankCalls = reqs[s].rankCalls

\* C30: the greeting and unit-selection paths issue no completion call; a
\* free-form request issues exactly one dialogue call, before any mutation
\* of the conversation and also when both slots are filled and its reply is
\* discarded; a request issues at most one ranking call, and only after the
\* precise matcher returned no record; no call is retried
C30_CompletionCallsSingleShot ==
    /\ [](\A s \in Slots : CallsOnce(reqs[s]))
    /\ [][\A s \in Slots : CalledBeforeMutation(s) /\ NoRetry(s)]_vars

\* a free-form request found both slots filled: one dialogue call whose
\* reply was discarded, and one ranking call after an empty precise result
C30_Witness ==
    /\ reqs[1].pc = "done" /\ reqs[1].path = "freeform"
    /\ reqs[1].response.status = 200
    /\ reqs[1].dialogueCalls = 1 /\ reqs[1].rankCalls = 1
    /\ reqs[1].preciseResults = << >>
    /\ reqs[1].modelReply # Null
    /\ Last(reqs[1].response.messages).content # reqs[1].modelReply

\* a dialogue call failed and was not repeated
C30_WitnessFailed ==
    /\ reqs[1].pc = "done" /\ reqs[1].dialogueThrew
    /\ reqs[1].dialogueCalls = 1 /\ reqs[1].response.status = 500

(* ------------------------------- C31 ----------------------------------- *)
\* the handoff events of an event log
Handoffs(events) == {i \in 1..Len(events) : events[i].type = "handoff"}

\* agent and number of handoff events of a key: a conversation not yet
\* stored is with the Triage Agent and has none
AgentOf(convs, h, k) ==
    IF k \in DOMAIN convs THEN h[convs[k]].current_agent ELSE TriageAgent
HandoffCount(convs, h, k) ==
    IF k \in DOMAIN convs THEN Cardinality(Handoffs(h[convs[k]].events)) ELSE 0

\* C31: the handoff events count the changes of the current agent: a step
\* appends one handoff event to a conversation exactly when it changes the
\* conversation's agent, and none otherwise (so a selector message naming
\* the unit already active appends none)
C31_HandoffPerAgentChange ==
    [][\A k \in DOMAIN conversations' :
         HandoffCount(conversations', heap', k) =
            HandoffCount(conversations, heap, k)
            + (IF AgentOf(conversations', heap', k) # AgentOf(conversations, heap, k)
               THEN 1 ELSE 0)]_vars

\* what does hold: a handoff event is appended by every unit-selection
\* request, whether or not the agent changes, and by no other request
C31_HandoffPerSelection ==
    [][\A k \in DOMAIN conversations' :
         HandoffCount(conversations', heap', k) =
            HandoffCount(conversations, heap, k)
            + (IF \E s \in Slots : /\ Completes(s) /\ reqs'[s].convId = k
                                   /\ reqs'[s].path \in {"promoselect", "suitup"}
               THEN 1 ELSE 0)]_vars

\* a conversation with two handoff events to the same agent
C31_RepeatedHandoff ==
    \E k \in DOMAIN conversations :
        \E i, j \in Handoffs(Stored(k).events) :
            i < j /\ Stored(k).events[i].agent = PromoselectAgent
                  /\ Stored(k).events[j].agent = PromoselectAgent
                  /\ \A n \in Handoffs(Stored(k).events) : n \in {i, j}

(* ------------------------------- C32 ----------------------------------- *)
\* the integers a reply lists, token by token, as a reader of the reply
\* takes them: "x" and "no" are no integers
ListedIndices(content) ==
    CASE content = << "3",","," ","1" >> -> << 3, 1 >>
      [] content = << "0",",","0",",","0",",","0" >> -> << 0, 0, 0, 0 >>
      [] content = << "2",",","x",",","-","1",",","9","9" >> -> << 2, 0 - 1, 99 >>
      [] content = << "n","o" >> -> << >>

\* the candidate list of the call of slot s
CandidatesOf(s) ==
    VectorCandidates(reqs[s].search.kind,
                     ReadFile(reqs[s].search.files, reqs[s].search.kind))

\* the index names a candidate whose price does not exceed the ceiling
Survives(s, index) ==
    /\ index >= 0 /\ index < Len(CandidatesOf(s))
    /\ LET price == ParsePrice(Prop(CandidatesOf(s)[index + 1], KeyPrecio))
       IN  ~(/\ TruthyNum(reqs[s].search.maxPrice)
             /\ NumGt(price, Num(0))
             /\ NumGt(price, reqs[s].search.maxPrice))

\* the ranking call of the search of slot s returned a reply with content
RankedWithContent(s) ==
    /\ reqs[s].pc = "done"
    /\ reqs[s].rankCalls = 1
    /\ reqs[s].rankReply.t = "ok"
    /\ reqs[s].rankReply.content # Null

\* C32: the semantic matcher takes the integers of the reply's
\* comma-separated tokens, drops the tokens that are no integer and the
\* indices without candidate (negative ones included) without raising, and
\* returns the surviving records in the order the reply lists their indices
C32_ReplyParsedInListedOrder ==
    \A s \in SearchSlots :
        RankedWithContent(s) =>
            LET idx == ListedIndices(reqs[s].rankReply.content)
                kept == {p \in 1..Len(idx) : Survives(s, idx[p])}
            IN  /\ reqs[s].exception = NoException
                /\ Len(reqs[s].vectorResults) = Cardinality(kept)
                /\ \A p \in kept :
                      reqs[s].vectorResults[Cardinality({q \in kept : q <= p})]
                         = MakeRecord(reqs[s].search.kind, CandidatesOf(s)[idx[p] + 1])

\* a reply listing index 3 before index 1 gave the fourth candidate first and
\* the second candidate after it
C32_Witness ==
    \E s \in SearchSlots :
        /\ RankedWithContent(s)
        /\ ListedIndices(reqs[s].rankReply.content) = << 3, 1 >>
        /\ Len(reqs[s].vectorResults) = 2
        /\ reqs[s].vectorResults[1] = MakeRecord(reqs[s].search.kind, CandidatesOf(s)[4])
        /\ reqs[s].vectorResults[2] = MakeRecord(reqs[s].search.kind, CandidatesOf(s)[2])

\* a reply with a token that is no integer, a negative index and an index
\* past the list gave the one record of its valid index
C32_WitnessDropped ==
    \E s \in SearchSlots :
        /\ RankedWithContent(s)
        /\ ListedIndices(reqs[s].rankReply.content) = << 2, 0 - 1, 99 >>
        /\ Len(CandidatesOf(s)) < 99
        /\ reqs[s].vectorResults = << MakeRecord(reqs[s].search.kind, CandidatesOf(s)[3]) >>

(* ------------------------------- C33 ----------------------------------- *)
\* the positions of a message log that hold the selector directive
SelectorMessages(messages) ==
    {i \in 1..Len(messages) : messages[i].content = DisplayBusinessSelector}

\* the messages of a key, none while it is not stored
MessagesOf(convs, h, k) == IF k \in DOMAIN convs THEN h[convs[k]].messages ELSE << >>

\* C33: a message whose content is DISPLAY_BUSINESS_SELECTOR enters a message
\* log only as the reply of the greeting rule: a request that appends one is
\* on the greeting path, and no model reply and no retrieval reply has that
\* content
C33_SelectorOnlyFromGreeting ==
    [][\A k \in DOMAIN conversations' :
         SelectorMessages(MessagesOf(conversations', heap', k))
            # SelectorMessages(MessagesOf(conversations, heap, k)) =>
         \E s \in Slots : /\ Completes(s) /\ reqs'[s].convId = k
                          /\ reqs'[s].path = "greeting"
                          /\ reqs'[s].dialogueCalls = 0]_vars

\* what does hold: no retrieval reply has that content, and a free-form
\* request records it only when the dialogue model returned exactly it
C33_SelectorFromGreetingOrModel ==
    [][\A k \in DOMAIN conversations' :
         SelectorMessages(MessagesOf(conversations', heap', k))
            # SelectorMessages(MessagesOf(conversations, heap, k)) =>
         \E s \in Slots :
            /\ Completes(s) /\ reqs'[s].convId = k
            /\ \/ reqs'[s].path = "greeting"
               \/ /\ reqs'[s].path = "freeform" /\ reqs'[s].searches = 0
                  /\ reqs'[s].modelReply = DisplayBusinessSelector]_vars

\* a free-form request recorded the model's reply, which is the directive
C33_ModelSaidSelector ==
    /\ reqs[1].pc = "done" /\ reqs[1].path = "freeform"
    /\ reqs[1].response.status = 200
    /\ Last(reqs[1].response.messages).content = DisplayBusinessSelector

(* ------------------------------- C34 ----------------------------------- *)
\* the two tables as the matchers load them
Tables == {PromoTable, SuitupTable}

\* the delimiters of a line that stand outside quote characters: those with
\* an even number of quote characters before them
OutsideDelimiters(line) ==
    {i \in 1..Len(line) :
        /\ line[i] = ","
        /\ Cardinality({j \in 1..(i - 1) : line[j] = "\""}) % 2 = 0}

\* the delimiters of a line that stand inside quote characters
QuotedDelimiters(line) ==
    {i \in 1..Len(line) : line[i] = ","} \ OutsideDelimiters(line)

\* where the n-th field of a line starts and ends
FieldStart(line, n) ==
    IF n = 1 THEN 1 ELSE NthOf(OutsideDelimiters(line), n - 1) + 1
FieldEnd(line, n) ==
    IF n = Cardinality(OutsideDelimiters(line)) + 1 THEN Len(line)
    ELSE NthOf(OutsideDelimiters(line), n) - 1

\* the n-th field of a line: its characters without the quote characters,
\* trimmed
FieldOf(line, n) ==
    Trim(SelectSeq(SubSeq(line, FieldStart(line, n), FieldEnd(line, n)),
                   LAMBDA c : c # "\""))

\* the fields of every line are those between its delimiters outside quotes
SplitOutsideQuotes ==
    \A table \in Tables : \A i \in 2..Len(table.lines) :
        LET line == table.lines[i]
            values == ParseLine(line)
        IN  /\ Len(values) = Cardinality(OutsideDelimiters(line)) + 1
            /\ \A n \in 1..Len(values) : values[n] = FieldOf(line, n)

\* a row has a property for every header, the empty string where the line
\* has no field for it
MissingFieldsEmpty ==
    \A table \in Tables : \A i \in 2..Len(table.lines) :
        /\ DOMAIN table.rows[i] = {table.headers[n] : n \in 1..Len(table.headers)}
        /\ \A n \in 1..Len(table.headers) :
              table.rows[i][table.headers[n]] =
                 IF n <= Cardinality(OutsideDelimiters(table.lines[i])) + 1
                 THEN FieldOf(table.lines[i], n) ELSE << >>

\* the records a search of slot s has returned
ReturnedRecords(s) ==
    {reqs[s].preciseResults[i] : i \in 1..Len(reqs[s].preciseResults)}
    \cup {reqs[s].vectorResults[i] : i \in 1..Len(reqs[s].vectorResults)}

\* the records of the rows of a table whose name field is empty
Unnamed(kind, table) ==
    {MakeRecord(kind, table.rows[i]) :
        i \in {n \in 2..Len(table.lines) : Prop(table.rows[n], KeyNombre) = << >>}}

\* C34: row parsing splits on the delimiters outside quote characters only,
\* a row shorter than the header has the empty string for each missing
\* trailing field, and no matcher returns a row whose name field is empty
C34_RowParsing ==
    /\ SplitOutsideQuotes
    /\ MissingFieldsEmpty
    /\ \A s \in SearchSlots :
          /\ reqs[s].exception = NoException
          /\ \A r \in ReturnedRecords(s) :
                /\ r.nombre \notin {Null, << >>}
                /\ r \notin Unnamed(reqs[s].search.kind, TableRead(s))

\* the table has a line with a quoted delimiter, a line shorter than the
\* header and a line without name, and a search returned the record of the
\* first one with its description whole
C34_Witness ==
    /\ \E i \in 2..Len(PromoTable.lines) : QuotedDelimiters(PromoTable.lines[i]) # {}
    /\ \E i \in 2..Len(PromoTable.lines) :
          /\ Trim(PromoTable.lines[i]) # << >>
          /\ Cardinality(OutsideDelimiters(PromoTable.lines[i])) + 1 < Len(PromoTable.headers)
    /\ Unnamed("products", PromoTable) # {}
    /\ \E s \in SearchSlots :
          /\ reqs[s].search.kind = "products"
          /\ reqs[s].preciseResults # << >>
          /\ reqs[s].preciseResults[1].descripcion = << "t","a","z","a",","," ","r","o","j","a" >>

(* ------------------------------- C35 ----------------------------------- *)
\* the agent that goes with a business unit
AgentFor(unit) ==
    IF unit = Null THEN TriageAgent
    ELSE IF unit = Promoselect THEN PromoselectAgent
    ELSE IF unit = SuitUp THEN SuitUpAgent
    ELSE << "none" >>

\* agent and unit of a conversation agree
AgentMatchesUnit(conversation) ==
    /\ conversation.current_agent \in {TriageAgent, PromoselectAgent, SuitUpAgent}
    /\ conversation.current_agent = AgentFor(conversation.context.business_unit)

\* C35: in every stored conversation, and in every conversation a running
\* request works on, the current agent is the one of the business unit
\* (Triage Agent for null, Promoselect Agent for 'promoselect', SuitUp Agent
\* for 'suitup'), and a stored conversation that has left the Triage Agent
\* never returns to it
C35_AgentMatchesUnit ==
    /\ [](\A o \in DOMAIN heap : AgentMatchesUnit(heap[o]))
    /\ [][\A k \in DOMAIN conversations :
            Stored(k).current_agent # TriageAgent =>
               /\ k \in DOMAIN conversations'
               /\ heap'[conversations'[k]].current_agent # TriageAgent
               /\ heap'[conversations'[k]].context.business_unit # Null]_vars

\* a conversation with the SuitUp Agent that was with the Promoselect Agent
\* before, and another one still with the Triage Agent
C35_Witness ==
    /\ \E k \in DOMAIN conversations :
          /\ Stored(k).current_agent = SuitUpAgent
          /\ Stored(k).context.business_unit = SuitUp
          /\ \E i \in 1..Len(Stored(k).events) :
                Stored(k).events[i].agent = PromoselectAgent
    /\ \E k \in DOMAIN conversations :
          /\ Stored(k).current_agent = TriageAgent
          /\ Stored(k).context.business_unit = Null
          /\ Len(Stored(k).messages) > 0

(* ------------------------------- C36 ----------------------------------- *)
\* the store as a client can observe it: the conversation of every key
StoreView(convs, h) == [k \in DOMAIN convs |-> h[convs[k]]]

\* C36: a request that ends in a 500 leaves the store unchanged: none of its
\* steps, from its receipt to its error response, changes a stored
\* conversation or adds one, and the conversation it may have built is not
\* stored
C36_ErrorLeavesStoreUnchanged ==
    [][\A s \in Slots :
         /\ (StepOf(s) /\ reqs'[s].response.status # 200) =>
               /\ conversations' = conversations
               /\ StoreView(conversations', heap') = StoreView(conversations, heap)
         /\ (Completes(s) /\ reqs'[s].response.status = 500) =>
               /\ reqs'[s].exception # NoException
               /\ reqs'[s].created => reqs'[s].convId \notin DOMAIN conversations'
               /\ ~reqs'[s].created =>
                     heap'[conversations'[reqs'[s].convId]] = Stored(reqs'[s].convId)]_vars

\* a request for a stored conversation with messages ended in a 500 after its
\* dialogue call failed
C36_Witness ==
    /\ reqs[1].pc = "done" /\ reqs[1].response.status = 500
    /\ reqs[1].dialogueThrew /\ ~reqs[1].created
    /\ reqs[1].convId \in DOMAIN conversations
    /\ Len(Stored(reqs[1].convId).messages) > 0

\* a request that built a conversation ended in a 500 and the store has no
\* entry for its id
C36_WitnessCreated ==
    /\ reqs[1].pc = "done" /\ reqs[1].response.status = 500
    /\ reqs[1].created
    /\ reqs[1].convId \notin DOMAIN conversations
    /\ DOMAIN conversations # {}

(* ------------------------------- C37 ----------------------------------- *)
\* two overlapping free-form requests for one conversation that was stored
\* when each of them arrived have both returned 200
BothAnsweredOnStored ==
    /\ Overlapped
    /\ reqs[1].convId = reqs[2].convId
    /\ \A s \in Slots :
          /\ reqs[s].path = "freeform" /\ ~reqs[s].created
          /\ reqs[s].response.status = 200

\* the request of slot a returned before the one of slot b, whose response
\* and the stored conversation hold a's reply followed by b's, and every slot
\* a's response shows filled has the same value afterwards
KeptThenAdded(a, b) ==
    LET k == reqs[a].convId
        first == reqs[a].response
        second == reqs[b].response
    IN  /\ Len(second.messages) = Len(first.messages) + 1
        /\ IsPrefix(first.messages, second.messages)
        /\ Stored(k).messages = second.messages
        /\ Stored(k).context = second.context
        /\ first.context.descripcion # Null =>
              second.context.descripcion = first.context.descripcion
        /\ first.context.precio # Null =>
              second.context.precio = first.context.precio

\* C37: two overlapping free-form requests for a stored conversation lose no
\* update, whatever the interleaving: once both have returned, the stored
\* message log holds the replies of both, in the order they returned, and a
\* slot set by the first to return was not overwritten by the second
C37_NoLostUpdateOnStored ==
    BothAnsweredOnStored => (KeptThenAdded(1, 2) \/ KeptThenAdded(2, 1))

\* the request received second returned first with the budget of its
\* message; the other one then stored its description and kept that budget
C37_Witness ==
    /\ BothAnsweredOnStored
    /\ KeptThenAdded(2, 1)
    /\ reqs[2].response.context.descripcion = Null
    /\ reqs[2].response.context.precio = << "0" >>
    /\ Stored(reqs[1].convId).context.descripcion = reqs[1].message
    /\ Stored(reqs[1].convId).context.precio = << "0" >>

\* the two requests worked on one object: each got from the store the object
\* the other one got
SameObject == reqs[1].obj = reqs[2].obj

\* C37 (as amended): two overlapping free-form requests that got the same
\* stored object lose no update: once both have returned, the stored message
\* log holds the replies of both, in the order they returned, and a slot set
\* by the first to return was not overwritten by the second
C37_NoLostUpdateOnSharedObject ==
    (BothAnsweredOnStored /\ SameObject) =>
        (KeptThenAdded(1, 2) \/ KeptThenAdded(2, 1))

\* after the race on the new id, the request received second returned first
\* with the description and the budget of its message; the other one, whose
\* message is '0', added its reply and kept the budget
C37_WitnessShared ==
    /\ BothAnsweredOnStored /\ SameObject
    /\ KeptThenAdded(2, 1)
    /\ reqs[1].message = << "0" >>
    /\ reqs[2].response.context.precio = << "9", "9" >>
    /\ Stored(reqs[1].convId).context.precio = << "9", "9" >>
    /\ Len(Stored(reqs[1].convId).messages) = 3

(* ------------------------------- C38 ----------------------------------- *)
\* a unit-selection request for key k ends in this step
SelectsIn(s, k) ==
    /\ Completes(s) /\ reqs'[s].convId = k
    /\ reqs'[s].path \in {"promoselect", "suitup"}

\* the catalogue of a business unit
CatalogueOf(unit) == IF unit = Promoselect THEN "products" ELSE "kits"

\* C38: a unit-selection request changes the business unit, the current
\* agent, the message log (one message more) and the event log (one event
\* more) and nothing else: description, budget, customer_name and
\* selected_products stay as they were; the next free-form request that
\* finds both slots filled searches the catalogue of the unit now selected
\* with the stored description as keyword and the stored budget as ceiling
C38_SelectionKeepsSlots ==
    [][\A s \in Slots :
         /\ \A k \in DOMAIN conversations :
              SelectsIn(s, k) =>
                 LET before == Stored(k)
                     after == heap'[conversations'[k]]
                 IN  /\ after.context.descripcion = before.context.descripcion
                     /\ after.context.precio = before.context.precio
                     /\ after.context.customer_name = before.context.customer_name
                     /\ after.context.selected_products = before.context.selected_products
                     /\ after.conversation_id = before.conversation_id
                     /\ Len(after.messages) = Len(before.messages) + 1
                     /\ IsPrefix(before.messages, after.messages)
                     /\ Len(after.events) = Len(before.events) + 1
                     /\ IsPrefix(before.events, after.events)
                     /\ after.context.business_unit =
                           (IF reqs'[s].path = "promoselect" THEN Promoselect ELSE SuitUp)
                     /\ after.current_agent = AgentFor(after.context.business_unit)
         /\ (AnswersFreeForm(s) /\ BothFilled(s)
               /\ heap[reqs[s].obj].context.business_unit # Null) =>
                 LET context == heap[reqs[s].obj].context
                 IN  /\ reqs'[s].searches = 1
                     /\ reqs'[s].search.kind = CatalogueOf(context.business_unit)
                     /\ reqs'[s].search.keyword = context.descripcion
                     /\ reqs'[s].search.maxPrice = CeilingOf(context.precio)]_vars

\* a conversation that had description and budget with Promoselect was
\* switched to SuitUp, and its next free-form message searched the kits with
\* the same keyword and ceiling
C38_Witness ==
    /\ reqs[1].pc = "done" /\ reqs[1].path = "freeform"
    /\ reqs[1].response.status = 200
    /\ reqs[1].searches = 1
    /\ reqs[1].search.kind = "kits"
    /\ reqs[1].search.keyword = ReadyConversation.context.descripcion
    /\ reqs[1].search.maxPrice = CeilingOf(ReadyConversation.context.precio)
    /\ Stored(reqs[1].convId).context.business_unit = SuitUp
    /\ \E i \in 1..Len(Stored(reqs[1].convId).events) :
          Stored(reqs[1].convId).events[i].agent = PromoselectAgent

(* ------------------------------- C39 ----------------------------------- *)
\* what a free-form request leaves alone in the conversation it works on
FreeFormFrame(before, after) ==
    /\ after.context.business_unit = before.context.business_unit
    /\ after.current_agent = before.current_agent
    /\ after.events = before.events
    /\ after.context.customer_name = before.context.customer_name
    /\ after.context.selected_products = before.context.selected_products
    /\ after.conversation_id = before.conversation_id
    /\ IsPrefix(before.messages, after.messages)
    /\ Len(after.messages) <= Len(before.messages) + 1
    /\ before.context.descripcion # Null =>
          after.context.descripcion = before.context.descripcion
    /\ before.context.precio # Null => after.context.precio = before.context.precio

\* C39: a free-form request changes at most the description slot, the
\* budget slot and the message log of its conversation: business unit,
\* current agent, event log, customer_name and selected_products are as it
\* found them after each of its steps, and no other conversation changes;
\* customer_name is null and selected_products is empty in every state
C39_FreeFormFrame ==
    /\ [](\A o \in DOMAIN heap :
             /\ heap[o].context.customer_name = Null
             /\ heap[o].context.selected_products = << >>)
    /\ [][\A s \in Slots :
            /\ (Receives(s) /\ reqs'[s].path = "freeform" /\ ~reqs'[s].created) =>
                  /\ heap'[reqs'[s].obj] = heap[reqs'[s].obj]
                  /\ UNCHANGED conversations
            /\ (StepOf(s) /\ InFlight(reqs[s]) /\ reqs[s].path = "freeform") =>
                  /\ reqs[s].obj \in DOMAIN heap' =>
                        FreeFormFrame(heap[reqs[s].obj], heap'[reqs[s].obj])
                  /\ \A k \in DOMAIN conversations :
                        k # reqs[s].convId =>
                           /\ k \in DOMAIN conversations'
                           /\ heap'[conversations'[k]] = Stored(k)]_vars

\* a free-form request on a conversation with a specialist filled both slots
\* and recorded a reply; agent, unit and the two events are as before
C39_Witness ==
    /\ reqs[1].pc = "done" /\ reqs[1].path = "freeform"
    /\ reqs[1].response.status = 200
    /\ Stored(reqs[1].convId).context.descripcion = reqs[1].message
    /\ Stored(reqs[1].convId).context.precio # Null
    /\ Stored(reqs[1].convId).context.business_unit = Promoselect
    /\ Stored(reqs[1].convId).current_agent = PromoselectAgent
    /\ Len(Stored(reqs[1].convId).events) = 2
    /\ Len(Stored(reqs[1].convId).messages) = 2
=============================================================================
